---- MODULE Spec2Model ----
(***************************************************************************)
(* Verification model of the rep-detection core of RehabRight:             *)
(* RepDetector (src/unnamed/part_000), driven by the per-frame callback.   *)
(*                                                                         *)
(* Angles are JavaScript numbers; they are modelled as exact rationals     *)
(* [n |-> numerator, d |-> denominator] in lowest terms.  Times are        *)
(* integer milliseconds as returned by Date.now().                         *)
(***************************************************************************)
EXTENDS Integers, Sequences, FiniteSets, TLC

VARIABLES
    det,      \* the RepDetector instance held by the session (all its fields)
    now,      \* Date.now(): wall clock in ms
    call,     \* the last call made on the detector and its arguments
    mon,      \* history of the run, recorded for the properties
    fresh,    \* << >>, or <<d>>: a detector constructed at the last reset() (at the last forceCalibration() in RecalibrationSpec) and fed the same calls
    scen,     \* position in the scripted standing -> squat -> standing session (ScenarioSpec)
    calc,     \* the static fields of AngleCalculator (one per page load)
    store,    \* the zustand store: currentSession (<< >> for null, <<session>> otherwise)
    page      \* the record page: its React state and what its frame callback captured

vars == <<det, now, call, mon, fresh, scen, calc, store, page>>

-----------------------------------------------------------------------------
(* Bounds of the model *)

\* Date.now() at construction.  Any value above MAX_REP_DURATION behaves like
\* the real epoch time against the zero-initialised time fields.
T0 == 100000
\* processed frames explored in one run
MaxFrames == 33
\* a run explores pauses (no frame for PauseMs) or lifecycle calls (reset(),
\* forceCalibration()), not both: at most MaxPauses of the former or
\* MaxLifecycle of the latter
MaxPauses == 2
MaxLifecycle == 1
\* during the first StillFrames frames of a calibration the user stands still
\* and the camera delivers frames steadily
StillFrames == 24

-----------------------------------------------------------------------------
(* JavaScript number arithmetic on angles, as exact rationals *)

RECURSIVE Gcd(_, _)
Gcd(a, b) == IF b = 0 THEN a ELSE Gcd(b, a % b)

IAbs(i) == IF i < 0 THEN -i ELSE i

Norm(n, d) ==
    LET g == Gcd(IAbs(n), IAbs(d))
        s == IF d < 0 THEN -1 ELSE 1
    IN  [n |-> s * (n \div g), d |-> s * (d \div g)]

RInt(i) == [n |-> i, d |-> 1]
RAdd(a, b) == Norm(a.n * b.d + b.n * a.d, a.d * b.d)
RSub(a, b) == Norm(a.n * b.d - b.n * a.d, a.d * b.d)
RMul(a, b) == Norm(a.n * b.n, a.d * b.d)
RDivInt(a, k) == Norm(a.n, a.d * k)
RLt(a, b) == a.n * b.d < b.n * a.d
RLe(a, b) == a.n * b.d <= b.n * a.d
RAbs(a) == [n |-> IAbs(a.n), d |-> a.d]
RMax(a, b) == IF RLt(a, b) THEN b ELSE a
RMin(a, b) == IF RLt(b, a) THEN b ELSE a

-----------------------------------------------------------------------------
(* RepState and the constants of RepDetector *)

IDLE == "idle"
STARTING == "starting"
PEAK == "peak"
ENDING == "ending"
COMPLETE == "complete"
RepState == {IDLE, STARTING, PEAK, ENDING, COMPLETE}

UPDATE_THROTTLE == 50
CALIBRATION_FRAMES_NEEDED == 25
STANDING_FRAMES == 15
MIN_REP_DURATION == 1000
MAX_REP_DURATION == 20000
DEBOUNCE == 200
STUCK_TIMEOUT == 5000
MAX_REP_TIMES == 10
CONFIDENCE_FRAMES == 15
hipHysteresis == 5
kneeHysteresis == 8
MOVEMENT_CHANGE == 15
DEFAULT_DEPTH_FLOOR == 60
DEFAULT_DEPTH_DROP == 80

\* field initialisers of the class (a newly constructed detector)
NewRepDetector(exercise) ==
    [ exercise            |-> exercise,
      currentState        |-> IDLE,
      repCount            |-> 0,
      lastRepTime         |-> 0,
      repStartTime        |-> 0,
      repTimes            |-> << >>,
      lastAngles          |-> "null",
      stateConfidence     |-> RInt(0),
      consecutiveFrames   |-> 0,
      lastUpdateTime      |-> 0,
      isCalibrated        |-> FALSE,
      standingHipAngle    |-> RInt(0),
      standingKneeAngle   |-> RInt(0),
      squatDepthHipAngle  |-> RInt(0),
      calibrationFrames   |-> 0 ]

RECURSIVE SumSeq(_)
SumSeq(s) == IF s = << >> THEN 0 ELSE Head(s) + SumSeq(Tail(s))

calculateAverageTempo(d) ==
    IF Len(d.repTimes) = 0 THEN RInt(0)
    ELSE Norm(SumSeq(d.repTimes), Len(d.repTimes))

getCurrentDetection(d) ==
    [ state        |-> d.currentState,
      repCount     |-> d.repCount,
      confidence   |-> d.stateConfidence,
      lastRepTime  |-> d.lastRepTime,
      averageTempo |-> calculateAverageTempo(d) ]

transitionTo(d, newState, timestamp) ==
    IF d.currentState = newState THEN d
    ELSE IF timestamp - d.lastRepTime < DEBOUNCE THEN d
    ELSE [d EXCEPT !.currentState = newState,
                   !.lastRepTime = timestamp,
                   !.consecutiveFrames = 0,
                   !.stateConfidence = RInt(0)]

completeRep(d, timestamp) ==
    IF d.currentState = COMPLETE THEN d
    ELSE LET repDuration == timestamp - d.repStartTime
         IN  IF repDuration >= MIN_REP_DURATION /\ repDuration <= MAX_REP_DURATION
             THEN LET pushed == Append(d.repTimes, repDuration)
                  IN  [d EXCEPT !.repCount = d.repCount + 1,
                                !.repTimes = IF Len(pushed) > MAX_REP_TIMES
                                             THEN Tail(pushed) ELSE pushed,
                                !.currentState = COMPLETE]
             ELSE d

\* variant: the timeout written with a digit missing
isStuck_500(d, t) ==
    /\ t - d.lastRepTime > 500
    /\ d.currentState # IDLE
    /\ d.currentState # COMPLETE

\* variant: the timeout given in seconds, compared with milliseconds
isStuck_seconds(d, t) ==
    /\ t - d.lastRepTime > STUCK_TIMEOUT \div 1000
    /\ d.currentState # IDLE
    /\ d.currentState # COMPLETE
isStuck(d, t) ==
    /\ t - d.lastRepTime > STUCK_TIMEOUT
    /\ d.currentState # IDLE
    /\ d.currentState # COMPLETE

checkForStuckState(d, t) ==
    IF isStuck(d, t) THEN completeRep(d, t) ELSE d

\* the running mean of the first 15 frames, then the squat-depth estimate
\* variant: the squat-depth estimate updated without the movement test
calibrateCollect_noGate(d, angles) ==
    LET k == d.calibrationFrames
    IN  IF k <= CALIBRATION_FRAMES_NEEDED
        THEN IF k <= STANDING_FRAMES
             THEN [d EXCEPT
                    !.standingHipAngle =
                        RDivInt(RAdd(RMul(d.standingHipAngle, RInt(k - 1)), angles.hipAngle), k),
                    !.standingKneeAngle =
                        RDivInt(RAdd(RMul(d.standingKneeAngle, RInt(k - 1)), angles.kneeAngle), k)]
             ELSE [d EXCEPT !.squatDepthHipAngle =
                               RAdd(RMul(d.squatDepthHipAngle, Norm(4, 5)),
                                    RMul(angles.hipAngle, Norm(1, 5)))]
        ELSE d
calibrateCollect(d, angles) ==
    LET k == d.calibrationFrames
    IN  IF k <= CALIBRATION_FRAMES_NEEDED
        THEN IF k <= STANDING_FRAMES
             THEN [d EXCEPT
                    !.standingHipAngle =
                        RDivInt(RAdd(RMul(d.standingHipAngle, RInt(k - 1)), angles.hipAngle), k),
                    !.standingKneeAngle =
                        RDivInt(RAdd(RMul(d.standingKneeAngle, RInt(k - 1)), angles.kneeAngle), k)]
             ELSE LET hipChange == RAbs(RSub(angles.hipAngle, d.standingHipAngle))
                      kneeChange == RAbs(RSub(angles.kneeAngle, d.standingKneeAngle))
                  IN  IF RLt(RInt(MOVEMENT_CHANGE), hipChange)
                         \/ RLt(RInt(MOVEMENT_CHANGE), kneeChange)
                      THEN [d EXCEPT !.squatDepthHipAngle =
                               RAdd(RMul(d.squatDepthHipAngle, Norm(4, 5)),
                                    RMul(angles.hipAngle, Norm(1, 5)))]
                      ELSE d
        ELSE d

calibrateComplete(d) ==
    IF d.calibrationFrames >= CALIBRATION_FRAMES_NEEDED
    THEN [d EXCEPT !.isCalibrated = TRUE,
                   !.squatDepthHipAngle =
                       IF d.squatDepthHipAngle = RInt(0)
                       THEN RMax(RInt(DEFAULT_DEPTH_FLOOR),
                                 RSub(d.standingHipAngle, RInt(DEFAULT_DEPTH_DROP)))
                       ELSE d.squatDepthHipAngle]
    ELSE d

calibrate(d, angles, t) ==
    LET d1 == IF d.calibrationFrames = 0 THEN [d EXCEPT !.repStartTime = t] ELSE d
        d2 == [d1 EXCEPT !.calibrationFrames = d1.calibrationFrames + 1]
    IN  calibrateComplete(calibrateCollect(d2, angles))

hipRange(d) == RSub(d.standingHipAngle, d.squatDepthHipAngle)
standingThreshold(d) == RSub(d.standingHipAngle, RMul(hipRange(d), Norm(1, 5)))
squatThreshold(d) == RAdd(d.squatDepthHipAngle, RMul(hipRange(d), Norm(1, 5)))
midThreshold(d) == RDivInt(RAdd(standingThreshold(d), squatThreshold(d)), 2)
kneeThreshold(d) == RSub(d.standingKneeAngle, RInt(kneeHysteresis))

shouldStart(d, a) ==
    RLt(a.hipAngle, standingThreshold(d)) \/ RLt(a.kneeAngle, kneeThreshold(d))
\* variant: the depth check made against the standing threshold
shouldPeak_standing(d, a) == RLe(a.hipAngle, standingThreshold(d))
shouldPeak(d, a) == RLe(a.hipAngle, squatThreshold(d))
shouldReturn(d, a) == RLt(RAdd(standingThreshold(d), RInt(hipHysteresis)), a.hipAngle)
shouldRise(d, a) == RLt(midThreshold(d), a.hipAngle)
shouldComplete(d, a) ==
    RLt(standingThreshold(d), a.hipAngle) \/ RLt(kneeThreshold(d), a.kneeAngle)
shouldReturnToPeak(d, a) == RLe(a.hipAngle, squatThreshold(d))

updateSquatState(d, a, t) ==
    IF ~d.isCalibrated THEN d
    ELSE CASE d.currentState = IDLE ->
                IF shouldStart(d, a) THEN transitionTo(d, STARTING, t) ELSE d
           [] d.currentState = STARTING ->
                IF shouldPeak(d, a) THEN transitionTo(d, PEAK, t)
                ELSE IF shouldReturn(d, a) THEN transitionTo(d, IDLE, t)
                ELSE d
           [] d.currentState = PEAK ->
                IF shouldRise(d, a) THEN transitionTo(d, ENDING, t) ELSE d
           [] d.currentState = ENDING ->
                IF shouldComplete(d, a) THEN completeRep(d, t)
                ELSE IF shouldReturnToPeak(d, a) THEN transitionTo(d, PEAK, t)
                ELSE d
           [] d.currentState = COMPLETE -> transitionTo(d, IDLE, t)

\* variant: the pull-up branch sharing the squat transition logic
updatePullupState_squat(d, a, t) == updateSquatState(d, a, t)
updatePullupState(d, a, t) == d

updateConfidence(d) ==
    LET c == d.consecutiveFrames + 1
    IN  [d EXCEPT !.consecutiveFrames = c,
                  !.stateConfidence = RMin(RInt(1), Norm(c, CONFIDENCE_FRAMES))]

\* variant: the throttle measured from the last phase transition
throttled_lastRep(d, t) == t - d.lastRepTime < UPDATE_THROTTLE

throttled(d, t) == t - d.lastUpdateTime < UPDATE_THROTTLE

\* variant: the calibration branch falls through into detection
update_fallThrough(d, a, t) ==
    IF throttled(d, t) THEN d
    ELSE LET d1 == [d EXCEPT !.lastUpdateTime = t]
             d2 == IF ~d1.isCalibrated THEN calibrate(d1, a, t) ELSE d1
             d3 == IF d2.exercise = "squat"
                   THEN updateSquatState(d2, a, t)
                   ELSE updatePullupState(d2, a, t)
         IN  updateConfidence(checkForStuckState(d3, t))

\* update(): the detector after the call; the value returned is
\* getCurrentDetection of that detector
update(d, a, t) ==
    IF throttled(d, t) THEN d
    ELSE LET d1 == [d EXCEPT !.lastUpdateTime = t]
         IN  IF ~d1.isCalibrated THEN calibrate(d1, a, t)
             ELSE LET d2 == IF d1.exercise = "squat"
                            THEN updateSquatState(d1, a, t)
                            ELSE updatePullupState(d1, a, t)
                  IN  updateConfidence(checkForStuckState(d2, t))

reset(d) ==
    [d EXCEPT !.currentState = IDLE,
              !.repCount = 0,
              !.lastRepTime = 0,
              !.repStartTime = 0,
              !.repTimes = << >>,
              !.lastAngles = "null",
              !.stateConfidence = RInt(0),
              !.consecutiveFrames = 0,
              !.isCalibrated = FALSE,
              !.standingHipAngle = RInt(0),
              !.standingKneeAngle = RInt(0),
              !.squatDepthHipAngle = RInt(0),
              !.calibrationFrames = 0]

\* variant: re-calibration implemented as a full reset
forceCalibration_reset(d) == reset(d)
forceCalibration(d) ==
    [d EXCEPT !.isCalibrated = FALSE, !.calibrationFrames = 0]

isRepInProgress(d) == d.currentState \in {STARTING, PEAK, ENDING}

-----------------------------------------------------------------------------
(* AngleCalculator (src/lib/pose/angles.ts): landmarks -> six joint        *)
(* angles, each blended with the angle returned for the previous frame.    *)
(* A frame is [count, hidden, pose]: the number of landmarks, the indices  *)
(* of the landmarks whose visibility is not above 0.5, and for each angle  *)
(* the whole degrees that Math.acos gives for the landmark positions.      *)

SMOOTHING_FACTOR == Norm(4, 5)

AngleNames ==
    {"trunkAngle", "hipAngle", "kneeAngle", "shoulderAngle", "elbowAngle", "ankleAngle"}

\* the landmarks each angle is computed from
RequiredLandmarks ==
    [a \in AngleNames |->
        CASE a = "trunkAngle"    -> {23, 11}
          [] a = "hipAngle"      -> {23, 25, 11}
          [] a = "kneeAngle"     -> {23, 25, 27}
          [] a = "shoulderAngle" -> {11, 13, 23}
          [] a = "elbowAngle"    -> {11, 13, 15}
          [] a = "ankleAngle"    -> {25, 27, 31}]

isLandmarkVisible(landmarks, i) == i \notin landmarks.hidden

AllVisible(landmarks, a) ==
    \A i \in RequiredLandmarks[a] : isLandmarkVisible(landmarks, i)

IMin(i, j) == IF i < j THEN i ELSE j
IMax(i, j) == IF i < j THEN j ELSE i

calculateAngleBetweenVectors(degrees) == IMax(0, IMin(180, degrees))

\* variant: the trunk angle without the clamp to 90 degrees
calculateTrunkAngle_unclamped(landmarks) ==
    IF ~AllVisible(landmarks, "trunkAngle") THEN RInt(0)
    ELSE RInt(landmarks.pose.trunkAngle)
calculateTrunkAngle(landmarks) ==
    IF ~AllVisible(landmarks, "trunkAngle") THEN RInt(0)
    ELSE RInt(IMin(90, IMax(0, landmarks.pose.trunkAngle)))

calculateHipAngle(landmarks) ==
    IF ~AllVisible(landmarks, "hipAngle") THEN RInt(0)
    ELSE RInt(180 - calculateAngleBetweenVectors(landmarks.pose.hipAngle))

calculateKneeAngle(landmarks) ==
    IF ~AllVisible(landmarks, "kneeAngle") THEN RInt(0)
    ELSE RInt(180 - calculateAngleBetweenVectors(landmarks.pose.kneeAngle))

calculateShoulderAngle(landmarks) ==
    IF ~AllVisible(landmarks, "shoulderAngle") THEN RInt(0)
    ELSE RInt(180 - calculateAngleBetweenVectors(landmarks.pose.shoulderAngle))

calculateElbowAngle(landmarks) ==
    IF ~AllVisible(landmarks, "elbowAngle") THEN RInt(0)
    ELSE RInt(180 - calculateAngleBetweenVectors(landmarks.pose.elbowAngle))

calculateAnkleAngle(landmarks) ==
    IF ~AllVisible(landmarks, "ankleAngle") THEN RInt(0)
    ELSE RInt(180 - calculateAngleBetweenVectors(landmarks.pose.ankleAngle))

\* the six unsmoothed angles of a full frame
rawAngles(landmarks) ==
    [trunkAngle    |-> calculateTrunkAngle(landmarks),
     hipAngle      |-> calculateHipAngle(landmarks),
     kneeAngle     |-> calculateKneeAngle(landmarks),
     shoulderAngle |-> calculateShoulderAngle(landmarks),
     elbowAngle    |-> calculateElbowAngle(landmarks),
     ankleAngle    |-> calculateAnkleAngle(landmarks)]

ZeroAngles == [a \in AngleNames |-> RInt(0)]

\* variant: the weights of the previous and the current angle exchanged
smoothAngle_swapped(current, previous) ==
    RAdd(RMul(current, SMOOTHING_FACTOR),
         RMul(previous, RSub(RInt(1), SMOOTHING_FACTOR)))
smoothAngle(current, previous) ==
    RAdd(RMul(previous, SMOOTHING_FACTOR),
         RMul(current, RSub(RInt(1), SMOOTHING_FACTOR)))

\* lastAngles is << >> for null, <<angles>> otherwise
NewAngleCalculator == [lastAngles |-> << >>]

\* calculateAngles: the new static fields and the returned angles
\* variant: a partial frame stores its all-zero result as the previous angles
calculateAngles_storeZeros(c, landmarks) ==
    IF landmarks.count < 33
    THEN [calc |-> [c EXCEPT !.lastAngles = <<ZeroAngles>>], angles |-> ZeroAngles]
    ELSE LET angles == rawAngles(landmarks) IN
         IF c.lastAngles # << >>
         THEN LET smoothed ==
                      [a \in AngleNames |->
                          smoothAngle(angles[a], c.lastAngles[1][a])]
              IN [calc |-> [c EXCEPT !.lastAngles = <<smoothed>>],
                  angles |-> smoothed]
         ELSE [calc |-> [c EXCEPT !.lastAngles = <<angles>>],
               angles |-> angles]
calculateAngles(c, landmarks) ==
    IF landmarks.count < 33
    THEN [calc |-> c, angles |-> ZeroAngles]
    ELSE LET angles == rawAngles(landmarks) IN
         IF c.lastAngles # << >>
         THEN LET smoothed ==
                      [a \in AngleNames |->
                          smoothAngle(angles[a], c.lastAngles[1][a])]
              IN [calc |-> [c EXCEPT !.lastAngles = <<smoothed>>],
                  angles |-> smoothed]
         ELSE [calc |-> [c EXCEPT !.lastAngles = <<angles>>],
               angles |-> angles]

\* the store before any session, and a page whose state is not modelled
NoStore == [currentSession |-> << >>]

NoPage == [repCount |-> 0]

-----------------------------------------------------------------------------
(* The session: the frame callback feeds update(); the Start button calls  *)
(* reset(); the debug button calls forceCalibration().                     *)

Angles(hip, knee) == [hipAngle |-> RInt(hip), kneeAngle |-> RInt(knee)]

StandingPose == Angles(170, 175)
\* standing, half-way down, at depth
Poses == {StandingPose, Angles(140, 120), Angles(100, 120)}
\* time between two frames: the camera's frame period; an extra frame that
\* arrives EarlyMs after a regular one (the next regular frame follows on
\* time); a pause in which no frame arrives
FramePeriod == 100
EarlyMs == 40
PauseMs == 9000
Deltas == {EarlyMs, FramePeriod - EarlyMs, FramePeriod, PauseMs}

Cadence(m, dt) ==
    IF m.early THEN dt = FramePeriod - EarlyMs
    ELSE dt \in {EarlyMs, FramePeriod, PauseMs}

FrameAllowed(d, dt, a) ==
    \/ d.isCalibrated
    \/ d.calibrationFrames >= StillFrames
    \/ a = StandingPose /\ dt # PauseMs

NoHistory ==
    [cycleStart |-> 0, sawPeak |-> FALSE, lastChange |-> 0, processed |-> 0,
     lastProcessed |-> 0, early |-> FALSE, frames |-> 0, pauses |-> 0, lifecycle |-> 0,
     inPhase |-> 0]

\* the history after a call that took the detector from d to d2 at time t
Observe(m, d, d2, t, isUpdate) ==
    LET changed == d2.currentState # d.currentState
        ran == isUpdate /\ t - m.lastProcessed >= 50
    IN  [m EXCEPT
           !.cycleStart = IF changed /\ d2.currentState = STARTING THEN t ELSE @,
           !.sawPeak = IF changed /\ d2.currentState = PEAK THEN TRUE
                       ELSE IF changed /\ d2.currentState = STARTING THEN FALSE
                       ELSE @,
           !.lastChange = IF changed THEN t ELSE @,
           !.processed = IF ran /\ @ >= 0 THEN @ + 1 ELSE @,
           !.lastProcessed = IF ran THEN t ELSE @,
           !.frames = IF ran THEN @ + 1 ELSE @,
           !.inPhase = IF ran /\ d.isCalibrated
                       THEN (IF changed THEN 1 ELSE @ + 1)
                       ELSE @]

NoScenario == [stage |-> "off", t |-> 0]

Init ==
    /\ det \in {NewRepDetector(e) : e \in {"squat"}}
    /\ now = T0
    /\ call = [op |-> "new", angles |-> StandingPose]
    /\ mon = NoHistory
    /\ fresh = << >>
    /\ scen = NoScenario
    /\ calc = NewAngleCalculator
    /\ store = NoStore
    /\ page = NoPage

Update(dt, a) ==
    /\ Cadence(mon, dt)
    /\ FrameAllowed(det, dt, a)
    /\ throttled(det, now + dt) \/ mon.frames < MaxFrames
    /\ dt = PauseMs => mon.pauses < MaxPauses /\ mon.lifecycle = 0
    /\ now' = now + dt
    /\ det' = update(det, a, now')
    /\ call' = [op |-> "update", angles |-> a]
    /\ mon' = [Observe(mon, det, det', now', TRUE) EXCEPT
                 !.early = (dt = EarlyMs),
                 !.pauses = IF dt = PauseMs THEN @ + 1 ELSE @]
    /\ fresh' = IF fresh = << >> THEN << >> ELSE <<update(fresh[1], a, now')>>
    /\ UNCHANGED <<scen, calc, store, page>>

Reset ==
    /\ mon.lifecycle < MaxLifecycle /\ mon.pauses = 0
    /\ det' = reset(det)
    /\ call' = [op |-> "reset", angles |-> StandingPose]
    /\ mon' = [NoHistory EXCEPT !.lifecycle = mon.lifecycle + 1,
                                !.lastProcessed = mon.lastProcessed,
                                !.early = mon.early,
                                !.frames = mon.frames]
    /\ fresh' = <<NewRepDetector(det.exercise)>>
    /\ UNCHANGED <<now, scen, calc, store, page>>

ForceCalibration ==
    /\ mon.lifecycle < MaxLifecycle /\ mon.pauses = 0
    /\ det' = forceCalibration(det)
    /\ call' = [op |-> "force", angles |-> StandingPose]
    /\ mon' = [mon EXCEPT !.processed = -1, !.lifecycle = mon.lifecycle + 1]
    /\ fresh' = IF fresh = << >> THEN << >> ELSE <<forceCalibration(fresh[1])>>
    /\ UNCHANGED <<now, scen, calc, store, page>>

Next ==
    \/ \E dt \in Deltas, a \in Poses : Update(dt, a)
    \/ Reset
    \/ ForceCalibration

Spec == Init /\ [][Next]_vars

-----------------------------------------------------------------------------
(* A scripted session: the detector is constructed, calibrated to standing *)
(* hip 170 / knee 175 / squat depth 70, the user stands for a while, then  *)
(* squats: the hip angle descends from 170 to 70 over 1200 ms and ascends  *)
(* back to 170 over 1200 ms.                                               *)

\* frame period of the scripted session; 12 ms of descent are one degree
ScenPeriod == 60
ScenSpacings == {ScenPeriod, 2 * ScenPeriod}
\* how long the user stands between calibration and the squat
ScenWaits == {0, 18000}

\* frame k of the calibration: 22 standing frames, then three frames of
\* movement whose depth estimate is 0.128*125 + 0.16*150 + 0.2*150 = 70
ScenCalibrationFrame(k) ==
    IF k <= 22 THEN Angles(170, 175)
    ELSE IF k = 23 THEN Angles(125, 175)
    ELSE Angles(150, 175)

ScenHip(t) ==
    IF t <= 1200 THEN 170 - (t \div 12) ELSE 70 + ((t - 1200) \div 12)

\* the knee bends with the hip, or is reported straight
ScenKnee(t, straight) == IF straight THEN 175 ELSE ScenHip(t) + 5

ScenInit ==
    /\ det = NewRepDetector("squat")
    /\ now = T0
    /\ call = [op |-> "new", angles |-> StandingPose]
    /\ mon = NoHistory
    /\ fresh = << >>
    /\ scen = [stage |-> "calibrating", t |-> 0]
    /\ calc = NewAngleCalculator
    /\ store = NoStore
    /\ page = NoPage

ScenStep(dt, a) ==
    /\ now' = now + dt
    /\ det' = update(det, a, now')
    /\ call' = [op |-> "update", angles |-> a]
    /\ mon' = Observe(mon, det, det', now', TRUE)
    /\ UNCHANGED <<fresh, calc, store, page>>

ScenCalibrate ==
    /\ scen.stage = "calibrating"
    /\ ScenStep(ScenPeriod, ScenCalibrationFrame(det.calibrationFrames + 1))
    /\ scen' = IF det'.isCalibrated THEN [stage |-> "standing", t |-> 0] ELSE scen

\* the user stands for w ms; the first frame of the squat follows
ScenStand(w) ==
    /\ scen.stage = "standing"
    /\ ScenStep(w + ScenPeriod, Angles(ScenHip(0), 175))
    /\ scen' = [stage |-> "moving", t |-> 0]

ScenFrame(dt, straight) ==
    /\ scen.stage = "moving"
    /\ scen.t + dt <= 2400
    /\ ScenStep(dt, Angles(ScenHip(scen.t + dt), ScenKnee(scen.t + dt, straight)))
    /\ scen' = [stage |-> IF scen.t + dt = 2400 THEN "done" ELSE "moving",
                t |-> scen.t + dt]

ScenNext ==
    \/ ScenCalibrate
    \/ \E w \in ScenWaits : ScenStand(w)
    \/ \E dt \in ScenSpacings, straight \in BOOLEAN : ScenFrame(dt, straight)

ScenarioSpec == ScenInit /\ [][ScenNext]_vars

getCalibrationStatus(d) ==
    [ isCalibrated       |-> d.isCalibrated,
      standingHipAngle   |-> d.standingHipAngle,
      standingKneeAngle  |-> d.standingKneeAngle,
      squatDepthHipAngle |-> d.squatDepthHipAngle,
      calibrationFrames  |-> d.calibrationFrames ]

-----------------------------------------------------------------------------
(* Vocabulary of the properties: what a step of the run did *)

\* the step is an update() call that was not throttled
Processed == call'.op = "update" /\ now' - mon.lastProcessed >= 50

\* the step is an update() call that arrived less than 50 ms after the last
\* processed one
Early == call'.op = "update" /\ now' - mon.lastProcessed < 50

PhaseChanged == det'.currentState # det.currentState

\* duration of the current cycle at the time of the step: since STARTING began
CycleDuration == now' - mon.cycleStart
ValidDuration(ms) == ms >= 1000 /\ ms <= 20000

\* the frame of the step satisfies the ENDING -> COMPLETE condition of the
\* transition table
EndingGuard ==
    \/ RLt(standingThreshold(det), call'.angles.hipAngle)
    \/ RLt(RSub(det.standingKneeAngle, RInt(8)), call'.angles.kneeAngle)

\* the step completes a squat cycle: a processed frame of a calibrated
\* detector in ENDING that satisfies the completion condition
Completion ==
    /\ Processed
    /\ det.isCalibrated
    /\ det.currentState = ENDING
    /\ EndingGuard

-----------------------------------------------------------------------------
(* C2: a completion increments repCount if and only if the time elapsed    *)
(* since the detector entered STARTING for this cycle is within            *)
(* [1000 ms, 20000 ms].                                                    *)
C2_CountedIffCycleDurationValid ==
    [][Completion =>
          ((det'.repCount = det.repCount + 1) <=> ValidDuration(CycleDuration))]_vars

(* C3: a cycle that completes with a duration outside [1000 ms, 20000 ms]  *)
(* still leaves ENDING for COMPLETE, and repCount is not incremented.      *)
C3_InvalidDurationCompletesUncounted ==
    [][(Completion /\ ~ValidDuration(CycleDuration)) =>
          (det'.currentState = COMPLETE /\ det'.repCount = det.repCount)]_vars

(* C4: the stuck-state safeguard always gets the detector out of a phase   *)
(* (STARTING, PEAK or ENDING) it has stayed in for more than 5000 ms: the  *)
(* processed frame at which that much time has passed changes the phase.   *)
C4_StuckPhaseIsLeft ==
    [][(/\ Processed
        /\ det.isCalibrated
        /\ det.currentState \in {STARTING, PEAK, ENDING}
        /\ now' - mon.lastChange > 5000) => PhaseChanged]_vars

(* C5: every increment of repCount is preceded, since the detector last    *)
(* left IDLE, by a visit to the PEAK phase.                                *)
C5_CountedOnlyAfterPeak ==
    [][det'.repCount > det.repCount => mon.sawPeak]_vars

(* C6: every phase change made by update() happens at least 200 ms after   *)
(* the previous phase change.                                              *)
C6_PhaseChangesDebounced ==
    [][(call'.op = "update" /\ PhaseChanged) => now' - mon.lastChange >= 200]_vars

\* thresholds of the transition table, from the calibrated baselines
TableRange == RSub(det.standingHipAngle, det.squatDepthHipAngle)
TableStanding == RSub(det.standingHipAngle, RDivInt(TableRange, 5))
TableSquat == RAdd(det.squatDepthHipAngle, RDivInt(TableRange, 5))
TableMid == RDivInt(RAdd(TableStanding, TableSquat), 2)
TableKnee == RSub(det.standingKneeAngle, RInt(8))

\* the step follows a row of the transition table whose condition holds for
\* the frame of the step
TableEdge ==
    LET from == det.currentState
        to == det'.currentState
        hip == call'.angles.hipAngle
        knee == call'.angles.kneeAngle
    IN  \/ from = IDLE /\ to = STARTING /\ (RLt(hip, TableStanding) \/ RLt(knee, TableKnee))
        \/ from = STARTING /\ to = PEAK /\ RLe(hip, TableSquat)
        \/ from = STARTING /\ to = IDLE /\ RLt(RAdd(TableStanding, RInt(5)), hip)
        \/ from = PEAK /\ to = ENDING /\ RLt(TableMid, hip)
        \/ from = ENDING /\ to = COMPLETE /\ (RLt(TableStanding, hip) \/ RLt(TableKnee, knee))
        \/ from = ENDING /\ to = PEAK /\ RLe(hip, TableSquat)
        \/ from = COMPLETE /\ to = IDLE

\* the step is a forced completion: COMPLETE is entered from a phase the
\* detector has been in for more than 5000 ms
ForcedCompletion ==
    /\ det.currentState \in {STARTING, PEAK, ENDING}
    /\ det'.currentState = COMPLETE
    /\ now' - mon.lastChange > 5000

(* C5, amended: every increment of repCount is preceded, since the         *)
(* detector last left IDLE, by a visit to the PEAK phase, unless it is     *)
(* made by a forced completion after more than 5000 ms in the phase.       *)
C5_CountedAfterPeakOrForced ==
    [][det'.repCount > det.repCount => (mon.sawPeak \/ ForcedCompletion)]_vars

C5_Witness ==
    /\ det.currentState = COMPLETE
    /\ det.repCount = 1
    /\ mon.sawPeak
    /\ now - mon.lastChange = 0
    /\ now - mon.cycleStart < 5000

(* C7: apart from the forced completion, update() changes the phase only   *)
(* along the rows of the transition table, and only when the condition of  *)
(* the row holds for the frame's hip and knee angles against the           *)
(* calibrated thresholds.                                                  *)
C7_OnlyTableEdges ==
    [][(call'.op = "update" /\ PhaseChanged /\ ~ForcedCompletion) => TableEdge]_vars

C7_Witness ==
    /\ call.op = "update"
    /\ det.currentState = PEAK
    /\ mon.sawPeak
    /\ det.repCount = 1
    /\ now = mon.lastChange

(* C8: during the first 25 processed update() calls after construction or  *)
(* reset() the phase stays IDLE and repCount stays 0; the detector is      *)
(* calibrated exactly on the 25th processed call, not before.              *)
C8_CalibrationGatesDetection ==
    /\ mon.processed \in 0..24 => ~det.isCalibrated
    /\ mon.processed \in 0..25 => (det.currentState = IDLE /\ det.repCount = 0)
    /\ mon.processed >= 25 => det.isCalibrated

\* the 26th processed call after a reset() is the first to leave IDLE
C8_Witness ==
    /\ mon.lifecycle = 1
    /\ mon.processed = 26
    /\ det.currentState = STARTING

(* C9: an update() call arriving less than 50 ms after the last processed  *)
(* update() leaves every field of the detector unchanged, so it returns    *)
(* the detection of the last processed call.                               *)
C9_EarlyCallChangesNothing ==
    [][Early => det' = det]_vars

\* an early frame at squat depth reached a calibrated, idle detector
C9_Witness ==
    /\ call.op = "update"
    /\ now - mon.lastProcessed \in 1..49
    /\ det.isCalibrated
    /\ det.currentState = IDLE
    /\ call.angles = Angles(100, 120)

(* C10: after reset() the detector is indistinguishable from a freshly     *)
(* constructed one: fed the same update() calls, both return identical     *)
(* detections and hold identical calibration state.                        *)
C10_ResetLikeNew ==
    fresh # << >> =>
        /\ getCurrentDetection(det) = getCurrentDetection(fresh[1])
        /\ getCalibrationStatus(det) = getCalibrationStatus(fresh[1])

(* C1: for a squat detector calibrated with standing hip 170 / knee 175 /  *)
(* squat depth 70, a frame sequence whose hip angle descends from 170 to   *)
(* 70 over 1.2 s and ascends back to 170 over 1.2 s ends with              *)
(* repCount = 1.                                                           *)
C1_ScenarioCountsOneRep ==
    scen.stage = "done" => det.repCount = 1

-----------------------------------------------------------------------------
\* the step moves the detector to COMPLETE from STARTING, PEAK or ENDING
\* without the ENDING -> COMPLETE condition of the table being satisfied
UnguardedCompletion ==
    /\ call'.op = "update"
    /\ det.currentState \in {STARTING, PEAK, ENDING}
    /\ det'.currentState = COMPLETE
    /\ ~(det.currentState = ENDING /\ EndingGuard)

(* C11: the detector moves to COMPLETE without the ENDING guard being      *)
(* satisfied only on an update() at which more than 5000 ms have elapsed   *)
(* since the last phase transition, never earlier.                         *)
C11_ForcedOnlyAfterTimeout ==
    [][UnguardedCompletion => now' - mon.lastChange > 5000]_vars

\* a completion was just forced from STARTING: no PEAK in this cycle
C11_Witness ==
    /\ call.op = "update"
    /\ det.currentState = COMPLETE
    /\ now = mon.lastChange
    /\ ~mon.sawPeak
    /\ now - mon.cycleStart > 5000

(* C12: confidence resets on every phase transition made by update(),      *)
(* including the one into COMPLETE: the consecutive-frame counter restarts *)
(* at the transition, so right after it the confidence is at most that of  *)
(* the one frame spent in the new phase (1/15).                            *)
C12_ConfidenceRestartsOnTransition ==
    [][(call'.op = "update" /\ PhaseChanged) =>
          RLe(det'.stateConfidence, Norm(1, 15))]_vars

(* C13: while the calibrated detector stays in the same phase over         *)
(* consecutive processed updates, the confidence is non-decreasing, lies   *)
(* in [0,1] and equals min(1, n/15), n being the number of consecutive     *)
(* processed frames spent in that phase.                                   *)
C13_ConfidenceCountsFramesInPhase ==
    [][(Processed /\ det.isCalibrated /\ ~PhaseChanged) =>
          /\ det'.stateConfidence = RMin(RInt(1), Norm(mon'.inPhase, 15))
          /\ RLe(det.stateConfidence, det'.stateConfidence)
          /\ RLe(RInt(0), det'.stateConfidence)
          /\ RLe(det'.stateConfidence, RInt(1))]_vars

\* the update() call of the step counted a rep
Counted == call'.op = "update" /\ det'.repCount = det.repCount + 1

\* the last (at most 10) entries of a history
KeepLast10(s) == IF Len(s) > 10 THEN SubSeq(s, Len(s) - 9, Len(s)) ELSE s

MeanOf(s) == IF s = << >> THEN RInt(0) ELSE Norm(SumSeq(s), Len(s))

(* C14: the tempo history never holds more than 10 durations; a counted    *)
(* rep appends its duration (the time since the cycle entered STARTING)    *)
(* and drops the oldest entry beyond 10, an update that counts no rep      *)
(* leaves the history unchanged; averageTempo is the mean of the stored    *)
(* durations and 0 when the history is empty.                              *)
C14_TempoHistory ==
    [][call'.op = "update" =>
          /\ Len(det'.repTimes) <= 10
          /\ det'.repTimes = IF Counted
                             THEN KeepLast10(Append(det.repTimes, CycleDuration))
                             ELSE det.repTimes
          /\ getCurrentDetection(det').averageTempo = MeanOf(det'.repTimes)]_vars

-----------------------------------------------------------------------------
(* A calibration session: a detector is constructed (or reset) and fed 25  *)
(* frames at the camera's frame period.  The user mostly stands; a bounded *)
(* number of frames show another posture.  scen records what the frames    *)
(* were: the sums of the first 15 hip and knee angles, and whether a frame *)
(* 16..25 differed from the mean of the first 15 by more than 15 degrees.  *)

\* frames of the first 15 that are not the standing pose
MaxSway == 2
\* frames 16..25 that are not the standing pose
MaxMoves == 2

\* <<hip, knee>>: standing, slightly bent, knees bent with the hip near
\* standing, half-way down, at depth
CalPoses == {<<170, 175>>, <<160, 170>>, <<165, 150>>, <<140, 120>>, <<100, 120>>}

CalStart == [stage |-> "measuring", hipSum |-> 0, kneeSum |-> 0,
             moved |-> FALSE, sway |-> 0, moves |-> 0]

CalInit ==
    /\ det = NewRepDetector("squat")
    /\ now = T0
    /\ call = [op |-> "new", angles |-> StandingPose]
    /\ mon = NoHistory
    /\ fresh = << >>
    /\ scen = CalStart
    /\ calc = NewAngleCalculator
    /\ store = NoStore
    /\ page = NoPage

CalFrame(hip, knee) ==
    LET k == mon.processed + 1
        odd == <<hip, knee>> # <<170, 175>>
    IN  /\ scen.stage = "measuring"
        /\ ~det.isCalibrated
        /\ (odd /\ k <= 15) => scen.sway < MaxSway
        /\ (odd /\ k > 15) => scen.moves < MaxMoves
        /\ now' = now + FramePeriod
        /\ det' = update(det, Angles(hip, knee), now')
        /\ call' = [op |-> "update", angles |-> Angles(hip, knee)]
        /\ mon' = Observe(mon, det, det', now', TRUE)
        /\ scen' = [scen EXCEPT
                      !.hipSum = IF k <= 15 THEN @ + hip ELSE @,
                      !.kneeSum = IF k <= 15 THEN @ + knee ELSE @,
                      !.moved = \/ @
                                \/ /\ k > 15
                                   /\ \/ IAbs(15 * hip - scen.hipSum) > 15 * 15
                                      \/ IAbs(15 * knee - scen.kneeSum) > 15 * 15,
                      !.sway = IF odd /\ k <= 15 THEN @ + 1 ELSE @,
                      !.moves = IF odd /\ k > 15 THEN @ + 1 ELSE @]
        /\ UNCHANGED <<fresh, calc, store, page>>

\* Start is pressed again once the calibration is complete
CalReset ==
    /\ scen.stage = "measuring"
    /\ det.isCalibrated
    /\ mon.lifecycle < MaxLifecycle
    /\ det' = reset(det)
    /\ call' = [op |-> "reset", angles |-> StandingPose]
    /\ mon' = [NoHistory EXCEPT !.lifecycle = mon.lifecycle + 1,
                                !.lastProcessed = mon.lastProcessed,
                                !.frames = mon.frames]
    /\ scen' = CalStart
    /\ UNCHANGED <<now, fresh, calc, store, page>>

CalNext ==
    \/ \E p \in CalPoses : CalFrame(p[1], p[2])
    \/ CalReset

CalibrationSpec == CalInit /\ [][CalNext]_vars

C16_WellFormedOutput ==
    [][/\ getCurrentDetection(det).state \in RepState
       /\ getCurrentDetection(det').state \in RepState
       /\ getCurrentDetection(det).repCount \in Nat
       /\ getCurrentDetection(det').repCount \in Nat
       /\ call'.op # "reset" => det'.repCount >= det.repCount
       /\ call'.op = "update" => det'.repCount <= det.repCount + 1]_vars

\* forceCalibration() was called on a detector that had counted a rep
C16_Witness ==
    /\ call.op = "force"
    /\ det.repCount = 1
    /\ det.currentState = COMPLETE

-----------------------------------------------------------------------------
(* A re-calibration: a scripted session (calibration to standing 170/175,  *)
(* depth 70, then one squat that is counted) is interrupted at any point   *)
(* by forceCalibration(); 25 frames follow.  fresh is a detector           *)
(* constructed at the time of the request and fed the same frames.         *)

ScriptLen == 33

ScriptFrame(k) ==
    IF k <= 25 THEN ScenCalibrationFrame(k)
    ELSE IF k = 26 THEN Angles(140, 120)
    ELSE IF k <= 28 THEN Angles(80, 100)
    ELSE IF k <= 30 THEN Angles(130, 120)
    ELSE Angles(170, 175)

RecInit ==
    /\ det = NewRepDetector("squat")
    /\ now = T0
    /\ call = [op |-> "new", angles |-> StandingPose]
    /\ mon = NoHistory
    /\ fresh = << >>
    /\ scen = [stage |-> "script", i |-> 0]
    /\ calc = NewAngleCalculator
    /\ store = NoStore
    /\ page = NoPage

RecScript ==
    /\ scen.stage = "script"
    /\ scen.i < ScriptLen
    /\ now' = now + FramePeriod
    /\ det' = update(det, ScriptFrame(scen.i + 1), now')
    /\ call' = [op |-> "update", angles |-> ScriptFrame(scen.i + 1)]
    /\ mon' = Observe(mon, det, det', now', TRUE)
    /\ scen' = [scen EXCEPT !.i = @ + 1]
    /\ UNCHANGED <<fresh, calc, store, page>>

RecForce ==
    /\ scen.stage = "script"
    /\ det' = forceCalibration(det)
    /\ call' = [op |-> "force", angles |-> StandingPose]
    /\ mon' = [mon EXCEPT !.processed = 0, !.lifecycle = @ + 1]
    /\ fresh' = <<NewRepDetector(det.exercise)>>
    /\ scen' = [CalStart EXCEPT !.stage = "remeasuring"]
    /\ UNCHANGED <<now, calc, store, page>>

RecFrame(hip, knee) ==
    LET k == mon.processed + 1
        odd == <<hip, knee>> # <<170, 175>>
    IN  /\ scen.stage = "remeasuring"
        /\ k <= 25
        /\ (odd /\ k <= 15) => scen.sway < MaxSway
        /\ (odd /\ k > 15) => scen.moves < MaxMoves
        /\ now' = now + FramePeriod
        /\ det' = update(det, Angles(hip, knee), now')
        /\ fresh' = <<update(fresh[1], Angles(hip, knee), now')>>
        /\ call' = [op |-> "update", angles |-> Angles(hip, knee)]
        /\ mon' = Observe(mon, det, det', now', TRUE)
        /\ scen' = [scen EXCEPT
                      !.sway = IF odd /\ k <= 15 THEN @ + 1 ELSE @,
                      !.moves = IF odd /\ k > 15 THEN @ + 1 ELSE @]
        /\ UNCHANGED <<calc, store, page>>

RecNext ==
    \/ RecScript
    \/ RecForce
    \/ \E p \in CalPoses : RecFrame(p[1], p[2])

RecalibrationSpec == RecInit /\ [][RecNext]_vars

(* C17: forceCalibration() may be called in any state; it preserves        *)
(* repCount and returns the detector to its pre-calibration stage; the     *)
(* next 25 processed updates only calibrate (no phase change, no rep       *)
(* counted); and the calibration state they end with (calibrated, the      *)
(* standing and squat-depth baselines) equals what a freshly constructed   *)
(* detector computes from the same 25 frames.                              *)
C17_RecalibrationLikeNew ==
    [][/\ call'.op = "force" =>
            /\ det'.repCount = det.repCount
            /\ getCalibrationStatus(det').isCalibrated = FALSE
       /\ (scen.stage = "remeasuring" /\ Processed) =>
            /\ ~PhaseChanged
            /\ det'.repCount = det.repCount
       /\ (scen'.stage = "remeasuring" /\ mon'.processed = 25) =>
            getCalibrationStatus(det') = getCalibrationStatus(fresh'[1])]_vars

-----------------------------------------------------------------------------
(* The session of Spec with a detector constructed for pull-ups *)

PullupInit ==
    /\ det = NewRepDetector("pullup")
    /\ now = T0
    /\ call = [op |-> "new", angles |-> StandingPose]
    /\ mon = NoHistory
    /\ fresh = << >>
    /\ scen = NoScenario
    /\ calc = NewAngleCalculator
    /\ store = NoStore
    /\ page = NoPage

PullupSpec == PullupInit /\ [][Next]_vars

(* C18: a detector constructed for 'pullup' always holds state: whatever   *)
(* the angles and the timing of the update() calls, the phase remains IDLE *)
(* and repCount remains 0; no rep is ever counted, also not by the         *)
(* stuck-state safeguard.                                                  *)
C18_PullupHoldsState ==
    det.exercise = "pullup" =>
        /\ getCurrentDetection(det).state = IDLE
        /\ getCurrentDetection(det).repCount = 0
        /\ getCurrentDetection(det).averageTempo = RInt(0)

\* a calibrated pull-up detector was fed frames at depth before and after
\* pauses longer than the stuck timeout
C18_Witness ==
    /\ det.exercise = "pullup"
    /\ det.isCalibrated
    /\ mon.pauses = 2
    /\ call.op = "update"
    /\ call.angles = Angles(100, 120)
    /\ det.consecutiveFrames >= 4

-----------------------------------------------------------------------------
(* The session store (src/lib/store.ts).  A session is                     *)
(* [exercise, ended, repCount, averageScore, lastRepScore, flags,          *)
(* feedback]; startTime is left out and endTime is kept as the flag ended. *)

startSession(st, exercise) ==
    [st EXCEPT !.currentSession =
        <<[exercise |-> exercise, ended |-> FALSE, repCount |-> 0,
           averageScore |-> RInt(0), lastRepScore |-> 0,
           flags |-> << >>, feedback |-> << >>]>>]

clearFeedback(st) ==
    IF st.currentSession = << >> THEN st
    ELSE [st EXCEPT !.currentSession[1].feedback = << >>]

endSession(st) ==
    IF st.currentSession = << >> THEN st
    ELSE [st EXCEPT !.currentSession[1].ended = TRUE]

\* repNumber 0 stands for 0 and for an argument left out: both are falsy
\* variant: every submission is stored
addFeedback_noCheck(st, message, type, priority, repNumber) ==
    IF st.currentSession = << >> THEN st
    ELSE LET session == st.currentSession[1]
             targetRepNumber ==
                 IF repNumber # 0 THEN repNumber ELSE session.repCount
         IN  [st EXCEPT !.currentSession[1].feedback =
                   Append(@, [repNumber |-> targetRepNumber, message |-> message,
                              type |-> type, priority |-> priority])]
addFeedback(st, message, type, priority, repNumber) ==
    IF st.currentSession = << >> THEN st
    ELSE LET session == st.currentSession[1]
             targetRepNumber ==
                 IF repNumber # 0 THEN repNumber ELSE session.repCount
             isDuplicate ==
                 \E i \in 1 .. Len(session.feedback) :
                    /\ session.feedback[i].message = message
                    /\ session.feedback[i].repNumber = targetRepNumber
         IN  IF isDuplicate THEN st
             ELSE [st EXCEPT !.currentSession[1].feedback =
                       Append(@, [repNumber |-> targetRepNumber, message |-> message,
                                  type |-> type, priority |-> priority])]

incrementRep(st) ==
    IF st.currentSession = << >> THEN st
    ELSE [st EXCEPT !.currentSession[1].repCount = @ + 1]

updateScore(st, score) ==
    IF st.currentSession = << >> THEN st
    ELSE LET currentScore == st.currentSession[1].averageScore
             repCount == st.currentSession[1].repCount
             newAverage ==
                 IF repCount = 0 THEN RInt(score)
                 ELSE RDivInt(RAdd(RMul(currentScore, RInt(repCount)), RInt(score)),
                              repCount + 1)
         IN  [st EXCEPT !.currentSession[1].averageScore = newAverage,
                        !.currentSession[1].lastRepScore = score]

-----------------------------------------------------------------------------
(* The recording page and the AngleCalculator: each press of the Start     *)
(* button begins a session, each frame of the pose provider is handed to   *)
(* calculateAngles.  isRecording (page.tsx:38) is only ever set to false,  *)
(* so every press of the button takes the branch that starts a session.    *)

\* calls of calculateAngles explored in one run
MaxCalls == 4
\* presses of the Start button explored in one run
MaxSessions == 2

StandingGeometry ==
    [trunkAngle |-> 5, hipAngle |-> 10, kneeAngle |-> 5,
     shoulderAngle |-> 170, elbowAngle |-> 15, ankleAngle |-> 80]

SquatGeometry ==
    [trunkAngle |-> 40, hipAngle |-> 105, kneeAngle |-> 95,
     shoulderAngle |-> 90, elbowAngle |-> 25, ankleAngle |-> 60]

\* shoulders below the hips: Math.acos gives more than 90 degrees for the trunk
InvertedGeometry ==
    [trunkAngle |-> 120, hipAngle |-> 0, kneeAngle |-> 180,
     shoulderAngle |-> 30, elbowAngle |-> 0, ankleAngle |-> 180]

\* full frames, with the left ankle visible or not, and one partial frame
PoseFrames ==
    {[count |-> 33, hidden |-> h, pose |-> p] :
        h \in {{}, {27}}, p \in {StandingGeometry, SquatGeometry}}
    \cup {[count |-> 33, hidden |-> {}, pose |-> InvertedGeometry]}
    \cup {[count |-> 17, hidden |-> {}, pose |-> StandingGeometry]}

\* The page after mount.  captured holds the state that the frame callback
\* handed to the pose provider reads: the provider is constructed once, with
\* the handlePoseResults of the render at mount (page.tsx:98-102), and the
\* callbacks of later renders are handed to nobody (page.tsx:287-290).
MountedPage ==
    [repCount |-> 0, currentScore |-> 0, currentFlags |-> << >>,
     captured |-> [repCount |-> 0]]

\* previous is << >>, or <<c>> for the previous call c of calculateAngles;
\* lastFull likewise for the previous call on a full frame
AngleInit ==
    /\ det = NewRepDetector("squat")
    /\ now = T0
    /\ call = [op |-> "new"]
    /\ mon = NoHistory
    /\ fresh = << >>
    /\ calc = NewAngleCalculator
    /\ store = startSession(NoStore, "squat")
    /\ page = MountedPage
    /\ scen = [sessions |-> 0, calls |-> 0, inSession |-> 0, partial |-> 0,
               previous |-> << >>, lastFull |-> << >>]

toggleRecording ==
    /\ scen.sessions < MaxSessions
    /\ det' = reset(det)
    /\ call' = [op |-> "toggleRecording"]
    /\ store' = startSession(store, det.exercise)
    /\ page' = [page EXCEPT !.repCount = 0, !.currentScore = 0,
                            !.currentFlags = << >>]
    /\ scen' = [scen EXCEPT !.sessions = @ + 1, !.inSession = 0]
    /\ UNCHANGED <<now, mon, fresh, calc>>

CalculateAngles(landmarks) ==
    LET r == calculateAngles(calc, landmarks) IN
    /\ scen.sessions > 0
    /\ scen.calls < MaxCalls
    /\ calc' = r.calc
    /\ call' = [op |-> "calculateAngles", landmarks |-> landmarks,
                angles |-> r.angles]
    /\ scen' = [scen EXCEPT
                  !.calls = @ + 1,
                  !.inSession = @ + 1,
                  !.partial = IF landmarks.count < 33 THEN @ + 1 ELSE @,
                  !.previous = <<call'>>,
                  !.lastFull = IF landmarks.count < 33 THEN @ ELSE <<call'>>]
    /\ UNCHANGED <<det, now, mon, fresh, store, page>>

AngleNext ==
    \/ toggleRecording
    \/ \E landmarks \in PoseFrames : CalculateAngles(landmarks)

AngleSpec == AngleInit /\ [][AngleNext]_vars

\* a call of calculateAngles on a full frame
FullFrameCall == call'.op = "calculateAngles" /\ call'.landmarks.count = 33

\* C19: with only full 33-landmark frames, the first call of calculateAngles
\* returns the raw angles unmodified, and every later call returns, for each
\* of the six angles, 0.8 times the angle returned by the previous call plus
\* 0.2 times the new raw angle (so the second call returns 0.8*a0 + 0.2*a1).
C19_ExponentialSmoothing ==
    [][(FullFrameCall /\ scen.partial = 0) =>
          IF scen.previous = << >>
          THEN call'.angles = rawAngles(call'.landmarks)
          ELSE \A a \in AngleNames :
                  call'.angles[a] =
                      RAdd(RMul(Norm(4, 5), scen.previous[1].angles[a]),
                           RMul(Norm(1, 5), rawAngles(call'.landmarks)[a]))]_vars

C19_Witness ==
    /\ call.op = "calculateAngles"
    /\ scen.calls = 3 /\ scen.partial = 0 /\ scen.sessions = 1
    /\ call.landmarks.pose = StandingGeometry /\ call.landmarks.hidden = {27}
    /\ call.angles.hipAngle = Norm(546, 5)
    /\ call.angles.kneeAngle = Norm(412, 5)

\* C20: the first frame of a recording session is returned raw, whatever was
\* computed in an earlier session.
C20_FirstFrameOfSessionRaw ==
    [][(FullFrameCall /\ scen.inSession = 0) =>
          call'.angles = rawAngles(call'.landmarks)]_vars

\* a call of calculateAngles on a frame of fewer than 33 landmarks
PartialFrameCall == call'.op = "calculateAngles" /\ call'.landmarks.count < 33

\* C21: a frame of fewer than 33 landmarks returns six zeros whatever the
\* smoothing memory holds and leaves the memory alone: the next full frame is
\* blended with the result of the last full frame.
C21_PartialFrameReturnsZeros ==
    [][/\ PartialFrameCall => (call'.angles = ZeroAngles /\ calc' = calc)
       /\ (FullFrameCall /\ scen.lastFull # << >>) =>
             \A a \in AngleNames :
                call'.angles[a] =
                    RAdd(RMul(Norm(4, 5), scen.lastFull[1].angles[a]),
                         RMul(Norm(1, 5), rawAngles(call'.landmarks)[a]))]_vars

C21_Witness ==
    /\ call.op = "calculateAngles" /\ call.landmarks.count = 33
    /\ scen.calls = 3 /\ scen.partial = 1 /\ scen.inSession = 3
    /\ call.landmarks.pose = SquatGeometry /\ call.landmarks.hidden = {}
    /\ call.angles.hipAngle = RInt(151)

\* C22: on a full frame, an angle with a required landmark that is not visible
\* is returned as exactly 0, whatever earlier frames returned for it.
C22_HiddenLandmarkGivesZero ==
    [][FullFrameCall =>
          \A a \in AngleNames :
             ~AllVisible(call'.landmarks, a) => call'.angles[a] = RInt(0)]_vars

\* C23: every returned angle lies in [0,180] and the returned trunk angle in
\* [0,90].
C23_AnglesInRange ==
    call.op = "calculateAngles" =>
        /\ \A a \in AngleNames :
              RLe(RInt(0), call.angles[a]) /\ RLe(call.angles[a], RInt(180))
        /\ RLe(call.angles.trunkAngle, RInt(90))

C23_Witness ==
    /\ call.op = "calculateAngles"
    /\ call.landmarks.pose = InvertedGeometry
    /\ scen.calls = 2 /\ scen.partial = 0
    /\ call.angles.trunkAngle = RInt(90)
    /\ call.angles.hipAngle = RInt(180)
    /\ call.angles.kneeAngle = RInt(0)

-----------------------------------------------------------------------------
(* ExerciseRules (src/lib/pose/rules.ts): angles and landmarks -> score,   *)
(* flags and feedback.  Scores and weights are exact rationals.  A frame   *)
(* handed to the rules is [count, hidden, x, y]: x and y give, in          *)
(* hundredths of the image, the coordinates of the landmarks the           *)
(* structural checks read.  The timestamp of a feedback item is left out.  *)

squatRules ==
    [trunkAngle |-> [thresholds |-> [min |-> 0, max |-> 25, optimal |-> 10],
                     weight |-> Norm(3, 10)],
     hipAngle   |-> [thresholds |-> [min |-> 50, max |-> 130, optimal |-> 90],
                     weight |-> Norm(4, 10)],
     kneeAngle  |-> [thresholds |-> [min |-> 60, max |-> 150, optimal |-> 110],
                     weight |-> Norm(3, 10)]]

pullupRules ==
    [shoulderAngle |-> [thresholds |-> [min |-> 0, max |-> 30, optimal |-> 15],
                        weight |-> Norm(4, 10)],
     elbowAngle    |-> [thresholds |-> [min |-> 60, max |-> 120, optimal |-> 90],
                        weight |-> Norm(3, 10)],
     chinOverBar   |-> [thresholds |-> [min |-> 0, max |-> 5, optimal |-> 2],
                        weight |-> Norm(3, 10)]]

\* variant: the tiers compared with < instead of <=
evaluateAngle_strict(angle, rule) ==
    LET min == rule.thresholds.min
        max == rule.thresholds.max
        optimal == rule.thresholds.optimal
    IN  IF RLe(RInt(min), angle) /\ RLe(angle, RInt(max))
        THEN LET range == max - min
                 distanceFromOptimal == RAbs(RSub(angle, RInt(optimal)))
                 maxDistance == Norm(range, 2)
             IN  IF RLt(distanceFromOptimal, RMul(maxDistance, Norm(2, 10)))
                 THEN RInt(1)
                 ELSE IF RLt(distanceFromOptimal, RMul(maxDistance, Norm(4, 10)))
                 THEN Norm(9, 10)
                 ELSE IF RLt(distanceFromOptimal, RMul(maxDistance, Norm(6, 10)))
                 THEN Norm(8, 10)
                 ELSE IF RLt(distanceFromOptimal, RMul(maxDistance, Norm(8, 10)))
                 THEN Norm(7, 10)
                 ELSE Norm(6, 10)
        ELSE IF RLt(angle, RInt(min))
        THEN LET distance == RSub(RInt(min), angle)
             IN  RMax(RInt(0), RSub(Norm(5, 10), RDivInt(distance, 10)))
        ELSE LET distance == RSub(angle, RInt(max))
             IN  RMax(RInt(0), RSub(Norm(5, 10), RDivInt(distance, 10)))
evaluateAngle(angle, rule) ==
    LET min == rule.thresholds.min
        max == rule.thresholds.max
        optimal == rule.thresholds.optimal
    IN  IF RLe(RInt(min), angle) /\ RLe(angle, RInt(max))
        THEN LET range == max - min
                 distanceFromOptimal == RAbs(RSub(angle, RInt(optimal)))
                 maxDistance == Norm(range, 2)
             IN  IF RLe(distanceFromOptimal, RMul(maxDistance, Norm(2, 10)))
                 THEN RInt(1)
                 ELSE IF RLe(distanceFromOptimal, RMul(maxDistance, Norm(4, 10)))
                 THEN Norm(9, 10)
                 ELSE IF RLe(distanceFromOptimal, RMul(maxDistance, Norm(6, 10)))
                 THEN Norm(8, 10)
                 ELSE IF RLe(distanceFromOptimal, RMul(maxDistance, Norm(8, 10)))
                 THEN Norm(7, 10)
                 ELSE Norm(6, 10)
        ELSE IF RLt(angle, RInt(min))
        THEN LET distance == RSub(RInt(min), angle)
             IN  RMax(RInt(0), RSub(Norm(5, 10), RDivInt(distance, 10)))
        ELSE LET distance == RSub(angle, RInt(max))
             IN  RMax(RInt(0), RSub(Norm(5, 10), RDivInt(distance, 10)))

\* variant: any narrowing of the knees against the ankles counts as valgus
checkKneeValgus_anyNarrowing(landmarks) ==
    IF landmarks.count < 32 THEN FALSE
    ELSE IF \E i \in {25, 26, 27, 28} : ~isLandmarkVisible(landmarks, i) THEN FALSE
    ELSE LET kneeDistance == IAbs(landmarks.x[25] - landmarks.x[26])
             ankleDistance == IAbs(landmarks.x[27] - landmarks.x[28])
         IN  kneeDistance < ankleDistance
checkKneeValgus(landmarks) ==
    IF landmarks.count < 32 THEN FALSE
    ELSE IF \E i \in {25, 26, 27, 28} : ~isLandmarkVisible(landmarks, i) THEN FALSE
    ELSE LET kneeDistance == IAbs(landmarks.x[25] - landmarks.x[26])
             ankleDistance == IAbs(landmarks.x[27] - landmarks.x[28])
         IN  RLt(RInt(kneeDistance), RMul(RInt(ankleDistance), Norm(8, 10)))

checkChinOverBar(landmarks) ==
    IF landmarks.count < 16 THEN RInt(0)
    ELSE IF \E i \in {11, 12, 0} : ~isLandmarkVisible(landmarks, i) THEN RInt(0)
    ELSE LET shoulderCenter == Norm(landmarks.y[11] + landmarks.y[12], 2)
             nose == RInt(landmarks.y[0])
         IN  IF RLt(nose, shoulderCenter) THEN RInt(1)
             ELSE IF RLt(nose, RAdd(shoulderCenter, RInt(10))) THEN Norm(7, 10)
             ELSE Norm(3, 10)

checkSwinging(landmarks) ==
    IF landmarks.count < 32 THEN FALSE
    ELSE IF \E i \in {23, 24} : ~isLandmarkVisible(landmarks, i) THEN FALSE
    ELSE LET hipCenter == Norm(landmarks.x[23] + landmarks.x[24], 2)
         IN  RLt(RInt(30), RAbs(RSub(hipCenter, RInt(50))))

\* Math.round of a non-negative number: halves go up
\* variant: the fraction dropped instead of rounded
MathRound_truncate(r) == r.n \div r.d
MathRound(r) == (2 * r.n + r.d) \div (2 * r.d)

Item(message, type, priority) ==
    [message |-> message, type |-> type, priority |-> priority]

evaluateSquat_kneeBeforeHip(angles, landmarks) ==
    LET trunkScore == evaluateAngle(angles.trunkAngle, squatRules.trunkAngle)
        hipScore == evaluateAngle(angles.hipAngle, squatRules.hipAngle)
        kneeScore == evaluateAngle(angles.kneeAngle, squatRules.kneeAngle)
        totalScore ==
            RAdd(RAdd(RMul(trunkScore, squatRules.trunkAngle.weight),
                      RMul(hipScore, squatRules.hipAngle.weight)),
                 RMul(kneeScore, squatRules.kneeAngle.weight))
        valgusFlag == checkKneeValgus(landmarks)
    IN  [score |->
            [overall |-> MathRound(RMul(totalScore, RInt(100))),
             breakdown |-> [trunkAngle |-> trunkScore, hipAngle |-> hipScore,
                            kneeAngle |-> kneeScore],
             flags |-> IF valgusFlag THEN <<"Knee valgus detected">> ELSE << >>],
         feedback |->
            (IF RLt(trunkScore, Norm(7, 10))
             THEN <<Item("Keep chest up", "warning", 2)>> ELSE << >>)
            \o (IF RLt(kneeScore, Norm(7, 10))
                THEN <<Item("Push knees out", "warning", 2)>> ELSE << >>)
            \o (IF RLt(hipScore, Norm(6, 10))
                THEN <<Item("Go deeper", "warning", 1)>>
                ELSE IF RLt(Norm(9, 10), hipScore)
                THEN <<Item("Good depth!", "info", 3)>> ELSE << >>)
            \o (IF valgusFlag
                THEN <<Item("Keep knees in line with toes", "error", 1)>>
                ELSE << >>)]
evaluateSquat(angles, landmarks) ==
    LET trunkScore == evaluateAngle(angles.trunkAngle, squatRules.trunkAngle)
        hipScore == evaluateAngle(angles.hipAngle, squatRules.hipAngle)
        kneeScore == evaluateAngle(angles.kneeAngle, squatRules.kneeAngle)
        totalScore ==
            RAdd(RAdd(RMul(trunkScore, squatRules.trunkAngle.weight),
                      RMul(hipScore, squatRules.hipAngle.weight)),
                 RMul(kneeScore, squatRules.kneeAngle.weight))
        valgusFlag == checkKneeValgus(landmarks)
    IN  [score |->
            [overall |-> MathRound(RMul(totalScore, RInt(100))),
             breakdown |-> [trunkAngle |-> trunkScore, hipAngle |-> hipScore,
                            kneeAngle |-> kneeScore],
             flags |-> IF valgusFlag THEN <<"Knee valgus detected">> ELSE << >>],
         feedback |->
            (IF RLt(trunkScore, Norm(7, 10))
             THEN <<Item("Keep chest up", "warning", 2)>> ELSE << >>)
            \o (IF RLt(hipScore, Norm(6, 10))
                THEN <<Item("Go deeper", "warning", 1)>>
                ELSE IF RLt(Norm(9, 10), hipScore)
                THEN <<Item("Good depth!", "info", 3)>> ELSE << >>)
            \o (IF RLt(kneeScore, Norm(7, 10))
                THEN <<Item("Push knees out", "warning", 2)>> ELSE << >>)
            \o (IF valgusFlag
                THEN <<Item("Keep knees in line with toes", "error", 1)>>
                ELSE << >>)]

evaluatePullup(angles, landmarks) ==
    LET shoulderScore ==
            evaluateAngle(angles.shoulderAngle, pullupRules.shoulderAngle)
        elbowScore == evaluateAngle(angles.elbowAngle, pullupRules.elbowAngle)
        chinScore == checkChinOverBar(landmarks)
        totalScore ==
            RAdd(RAdd(RMul(shoulderScore, pullupRules.shoulderAngle.weight),
                      RMul(elbowScore, pullupRules.elbowAngle.weight)),
                 RMul(chinScore, pullupRules.chinOverBar.weight))
        swingFlag == checkSwinging(landmarks)
    IN  [score |->
            [overall |-> MathRound(RMul(totalScore, RInt(100))),
             breakdown |-> [shoulderAngle |-> shoulderScore,
                            elbowAngle |-> elbowScore,
                            chinOverBar |-> chinScore],
             flags |-> IF swingFlag THEN <<"Swinging detected">> ELSE << >>],
         feedback |->
            (IF RLt(shoulderScore, Norm(7, 10))
             THEN <<Item("Keep shoulders engaged", "warning", 2)>> ELSE << >>)
            \o (IF RLt(elbowScore, Norm(7, 10))
                THEN <<Item("Pull with your back", "warning", 2)>> ELSE << >>)
            \o (IF RLt(chinScore, Norm(7, 10))
                THEN <<Item("Pull chin over bar", "warning", 1)>> ELSE << >>)
            \o (IF swingFlag
                THEN <<Item("Control the movement", "error", 1)>> ELSE << >>)]

-----------------------------------------------------------------------------
(* The rules engine as a function of its inputs: a run starts with one     *)
(* call of evaluateAngle, evaluateSquat or evaluatePullup and its          *)
(* arguments, and the call returns.                                        *)

\* angles handed to evaluateAngle: 0, 0.5, 1, ... HalfDegrees / 2
HalfDegrees == 360

RuleAngles == {Norm(k, 2) : k \in 0 .. HalfDegrees}

RuleNames ==
    {<<"squat", n>> : n \in DOMAIN squatRules}
    \cup {<<"pullup", n>> : n \in DOMAIN pullupRules}

RuleOf(table, name) ==
    IF table = "squat" THEN squatRules[name] ELSE pullupRules[name]

JointAngles(trunk, hip, knee, shoulder, elbow) ==
    [trunkAngle |-> trunk, hipAngle |-> hip, kneeAngle |-> knee,
     shoulderAngle |-> shoulder, elbowAngle |-> elbow, ankleAngle |-> RInt(90)]

SquatAngles ==
    {JointAngles(RInt(t), h, RInt(k), RInt(20), RInt(170)) :
        t \in {0, 10, 30},
        h \in {RInt(0), RInt(45), RInt(60), RInt(90), Norm(1049, 8), RInt(135)},
        k \in {0, 110, 155}}

PullupAngles ==
    {JointAngles(RInt(5), RInt(170), RInt(175), RInt(s), RInt(e)) :
        s \in {0, 15, 35}, e \in {0, 90, 125}}

\* x of both hips (23, 24), knees (25, 26) and ankles (27, 28)
FrameXs ==
    {(23 :> h[1] @@ 24 :> h[2] @@ 25 :> k[1] @@ 26 :> k[2] @@ 27 :> 40 @@ 28 :> 60) :
        h \in {<<48, 52>>, <<85, 87>>, <<80, 80>>},
        k \in {<<40, 60>>, <<45, 55>>, <<42, 58>>}}

\* y of the nose (0) and both shoulders (11, 12)
FrameYs ==
    {(0 :> n @@ 11 :> 30 @@ 12 :> 30) : n \in {20, 30, 35, 40, 50}}

\* full frames, frames cut after landmark 29 or 11, frames with one landmark
\* of a structural check not visible
RuleFrames ==
    {[count |-> c, hidden |-> h, x |-> x, y |-> y] :
        c \in {33, 30, 12}, h \in {{}, {26}, {24}, {0}}, x \in FrameXs, y \in FrameYs}

RulesInit ==
    /\ det = NewRepDetector("squat")
    /\ now = T0
    /\ mon = NoHistory
    /\ fresh = << >>
    /\ scen = NoScenario
    /\ calc = NewAngleCalculator
    /\ store = NoStore
    /\ page = NoPage
    /\ \/ call \in {[op |-> "evaluateAngle", stage |-> "called",
                     table |-> r[1], name |-> r[2], angle |-> a] :
                       r \in RuleNames, a \in RuleAngles}
       \/ call \in {[op |-> "evaluateSquat", stage |-> "called",
                     angles |-> a, landmarks |-> l] :
                       a \in SquatAngles, l \in RuleFrames}
       \/ call \in {[op |-> "evaluatePullup", stage |-> "called",
                     angles |-> a, landmarks |-> l] :
                       a \in PullupAngles, l \in RuleFrames}

EvaluateAngle ==
    /\ call.op = "evaluateAngle" /\ call.stage = "called"
    /\ call' = [op |-> call.op, stage |-> "returned", table |-> call.table,
                name |-> call.name, angle |-> call.angle,
                result |-> evaluateAngle(call.angle, RuleOf(call.table, call.name))]
    /\ UNCHANGED <<det, now, mon, fresh, scen, calc, store, page>>

EvaluateSquat ==
    /\ call.op = "evaluateSquat" /\ call.stage = "called"
    /\ call' = [op |-> call.op, stage |-> "returned", angles |-> call.angles,
                landmarks |-> call.landmarks,
                result |-> evaluateSquat(call.angles, call.landmarks)]
    /\ UNCHANGED <<det, now, mon, fresh, scen, calc, store, page>>

EvaluatePullup ==
    /\ call.op = "evaluatePullup" /\ call.stage = "called"
    /\ call' = [op |-> call.op, stage |-> "returned", angles |-> call.angles,
                landmarks |-> call.landmarks,
                result |-> evaluatePullup(call.angles, call.landmarks)]
    /\ UNCHANGED <<det, now, mon, fresh, scen, calc, store, page>>

RulesNext ==
    \/ EvaluateAngle
    \/ EvaluateSquat
    \/ EvaluatePullup

RulesSpec == RulesInit /\ [][RulesNext]_vars

Returned(op) == call.op = op /\ call.stage = "returned"

\* the score curve of the rule table entry [min, max, optimal] at angle n/d,
\* in whole-number comparisons: inside [min,max] the tier of
\* |angle - optimal| against 20%, 40%, 60%, 80% of half the range, outside it
\* 0.5 less a tenth per degree past the boundary, floored at 0
ReferenceScore(angle, th) ==
    LET n == angle.n
        d == angle.d
        off == IAbs(n - th.optimal * d) * 20
        width == (th.max - th.min) * d
    IN  IF th.min * d <= n /\ n <= th.max * d
        THEN IF off <= 2 * width THEN RInt(1)
             ELSE IF off <= 4 * width THEN Norm(9, 10)
             ELSE IF off <= 6 * width THEN Norm(8, 10)
             ELSE IF off <= 8 * width THEN Norm(7, 10)
             ELSE Norm(6, 10)
        ELSE LET past == IF n < th.min * d THEN th.min * d - n ELSE n - th.max * d
             IN  IF past >= 5 * d THEN RInt(0) ELSE Norm(5 * d - past, 10 * d)

\* C24: for every rule of both tables and every angle, evaluateAngle is the
\* reference curve; at optimal it is 1.0, halfway between optimal and either
\* boundary it is 0.8 or 0.9, and 10 degrees beyond max it is 0.
C24_ScoreCurve ==
    Returned("evaluateAngle") =>
        LET th == RuleOf(call.table, call.name).thresholds
            a == call.angle
        IN  /\ call.result = ReferenceScore(a, th)
            /\ a = RInt(th.optimal) => call.result = RInt(1)
            /\ (a = Norm(th.optimal + th.min, 2) \/ a = Norm(th.optimal + th.max, 2))
                  => call.result \in {Norm(8, 10), Norm(9, 10)}
            /\ a = RInt(th.max + 10) => call.result = RInt(0)

C24_Witness ==
    /\ Returned("evaluateAngle")
    /\ call.table = "squat" /\ call.name = "trunkAngle"
    /\ call.angle = Norm(35, 2)
    /\ call.result = Norm(8, 10)

\* C25: every breakdown score lies in [0,1], the weights of each rule table
\* sum to 1, and the overall score is the weighted sum of the breakdown
\* scores times 100 rounded to the nearest integer, in 0..100.
C25_WeightedScore ==
    \A t \in {"squat", "pullup"} :
        LET rules == IF t = "squat" THEN squatRules ELSE pullupRules
            names == DOMAIN rules
            Sum[S \in SUBSET names] ==
                IF S = {} THEN RInt(0)
                ELSE LET k == CHOOSE k \in S : TRUE
                     IN  RAdd(rules[k].weight, Sum[S \ {k}])
            Weighted[S \in SUBSET names] ==
                IF S = {} THEN RInt(0)
                ELSE LET k == CHOOSE k \in S : TRUE
                     IN  RAdd(RMul(RMul(call.result.score.breakdown[k], rules[k].weight), RInt(100)),
                              Weighted[S \ {k}])
        IN  /\ Sum[names] = RInt(1)
            /\ Returned(IF t = "squat" THEN "evaluateSquat" ELSE "evaluatePullup") =>
                  LET s == call.result.score
                      w == Weighted[names]
                  IN  /\ DOMAIN s.breakdown = names
                      /\ \A k \in names :
                            RLe(RInt(0), s.breakdown[k]) /\ RLe(s.breakdown[k], RInt(1))
                      /\ s.overall \in 0 .. 100
                      /\ 2 * s.overall * w.d - w.d <= 2 * w.n
                      /\ 2 * w.n < 2 * s.overall * w.d + w.d

C25_Witness ==
    /\ Returned("evaluateSquat")
    /\ call.angles.trunkAngle = RInt(10)
    /\ call.angles.hipAngle = Norm(1049, 8)
    /\ call.angles.kneeAngle = RInt(110)
    /\ call.result.score.breakdown.hipAngle = Norm(31, 80)
    /\ call.result.score.overall = 76

\* landmark i is in the frame and its visibility is above 0.5
Present(landmarks, i) == i < landmarks.count /\ i \notin landmarks.hidden

InSeq(s, e) == \E i \in 1 .. Len(s) : s[i] = e

\* the error-type priority-1 items of a feedback list
ErrorItems(feedback) ==
    {i \in 1 .. Len(feedback) :
        feedback[i].type = "error" /\ feedback[i].priority = 1}

KneesCaveIn(landmarks) ==
    /\ \A i \in {25, 26, 27, 28} : Present(landmarks, i)
    /\ 10 * IAbs(landmarks.x[25] - landmarks.x[26])
          < 8 * IAbs(landmarks.x[27] - landmarks.x[28])

HipsOffCentre(landmarks) ==
    /\ \A i \in {23, 24} : Present(landmarks, i)
    /\ IAbs(landmarks.x[23] + landmarks.x[24] - 100) > 60

\* the same frame with knees and hips where no structural flag is raised
Unflagged(landmarks) ==
    [landmarks EXCEPT !.x = (23 :> 48 @@ 24 :> 52 @@ 25 :> 40 @@ 26 :> 60
                              @@ 27 :> 40 @@ 28 :> 60)]

\* what holds of the flags whatever raises them: a flag comes with exactly
\* one error-type priority-1 item, and the score is that of the unflagged frame
FlagsApartFromScore(flag, unflagged) ==
    LET r == call.result IN
    /\ InSeq(r.score.flags, flag) <=> Cardinality(ErrorItems(r.feedback)) = 1
    /\ ~InSeq(r.score.flags, flag) <=> ErrorItems(r.feedback) = {}
    /\ r.score.overall = unflagged.score.overall
    /\ r.score.breakdown = unflagged.score.breakdown

\* C26 as stated: 'Knee valgus detected' is raised exactly when all four
\* knee/ankle landmarks are visible and the knees are less than 0.8 times as
\* far apart as the ankles, 'Swinging detected' exactly when both hips are
\* visible and their centre is more than 0.3 from x = 0.5; a flag comes with
\* exactly one error-type priority-1 feedback item and leaves overall and
\* breakdown as they are without it.
C26_FlagsExactlyWhenVisible ==
    /\ Returned("evaluateSquat") =>
          /\ InSeq(call.result.score.flags, "Knee valgus detected")
                <=> KneesCaveIn(call.landmarks)
          /\ FlagsApartFromScore("Knee valgus detected",
                  evaluateSquat(call.angles, Unflagged(call.landmarks)))
    /\ Returned("evaluatePullup") =>
          /\ InSeq(call.result.score.flags, "Swinging detected")
                <=> HipsOffCentre(call.landmarks)
          /\ FlagsApartFromScore("Swinging detected",
                  evaluatePullup(call.angles, Unflagged(call.landmarks)))

\* C26 amended: the same, and a frame of fewer than 32 landmarks raises no
\* flag even when the landmarks of the check are all in it and visible.
C26_FlagsInFramesOf32 ==
    /\ Returned("evaluateSquat") =>
          /\ InSeq(call.result.score.flags, "Knee valgus detected")
                <=> (call.landmarks.count >= 32 /\ KneesCaveIn(call.landmarks))
          /\ FlagsApartFromScore("Knee valgus detected",
                  evaluateSquat(call.angles, Unflagged(call.landmarks)))
    /\ Returned("evaluatePullup") =>
          /\ InSeq(call.result.score.flags, "Swinging detected")
                <=> (call.landmarks.count >= 32 /\ HipsOffCentre(call.landmarks))
          /\ FlagsApartFromScore("Swinging detected",
                  evaluatePullup(call.angles, Unflagged(call.landmarks)))

C26_Witness ==
    /\ Returned("evaluateSquat")
    /\ call.landmarks.count = 33 /\ call.landmarks.hidden = {0}
    /\ call.landmarks.x[25] = 45 /\ call.landmarks.x[23] = 85
    /\ call.angles.trunkAngle = RInt(10)
    /\ call.angles.hipAngle = RInt(90)
    /\ call.angles.kneeAngle = RInt(110)
    /\ call.result.score.flags = <<"Knee valgus detected">>
    /\ call.result.score.overall = 100
    /\ Len(call.result.feedback) = 2

Messages(feedback) == {feedback[i].message : i \in 1 .. Len(feedback)}

\* the same frame with nose and shoulders in it and visible, and the nose
\* well below the shoulders: the lowest score of a chin-over-bar check that
\* is carried out
ChinWellBelow(landmarks) ==
    [landmarks EXCEPT !.count = 33, !.hidden = @ \ {0, 11, 12},
                      !.y = (0 :> 50 @@ 11 :> 30 @@ 12 :> 30)]

\* C27: a structural check one of whose landmarks is absent or not visible
\* is skipped: valgus and swing raise no flag and no error item, chin-over-bar
\* emits no feedback item, and the overall score is not lowered (it is that
\* of the angles alone for valgus and swing, and not below that of a
\* chin-over-bar check that is carried out).
C27_MissingLandmarksSkipChecks ==
    /\ (Returned("evaluateSquat")
          /\ \E i \in {25, 26, 27, 28} : ~Present(call.landmarks, i)) =>
          /\ call.result.score.flags = << >>
          /\ ErrorItems(call.result.feedback) = {}
          /\ call.result.score.overall =
                evaluateSquat(call.angles, Unflagged(call.landmarks)).score.overall
    /\ (Returned("evaluatePullup")
          /\ \E i \in {23, 24} : ~Present(call.landmarks, i)) =>
          /\ call.result.score.flags = << >>
          /\ ErrorItems(call.result.feedback) = {}
    /\ (Returned("evaluatePullup")
          /\ \E i \in {0, 11, 12} : ~Present(call.landmarks, i)) =>
          /\ "Pull chin over bar" \notin Messages(call.result.feedback)
          /\ call.result.score.overall >=
                evaluatePullup(call.angles, ChinWellBelow(call.landmarks)).score.overall

\* the corrective message of each scored angle
Correction ==
    [trunkAngle |-> "Keep chest up", hipAngle |-> "Go deeper",
     kneeAngle |-> "Push knees out", shoulderAngle |-> "Keep shoulders engaged",
     elbowAngle |-> "Pull with your back"]

\* C28: an angle of exactly 0 is missing data: evaluateSquat and
\* evaluatePullup emit no corrective feedback for an angle they score when
\* that angle is 0.
C28_ZeroAngleIsMissingData ==
    /\ Returned("evaluateSquat") =>
          \A a \in {"trunkAngle", "hipAngle", "kneeAngle"} :
             call.angles[a] = RInt(0) =>
                Correction[a] \notin Messages(call.result.feedback)
    /\ Returned("evaluatePullup") =>
          \A a \in {"shoulderAngle", "elbowAngle"} :
             call.angles[a] = RInt(0) =>
                Correction[a] \notin Messages(call.result.feedback)

\* the messages of a feedback list, in order
MessageList(feedback) == [i \in 1 .. Len(feedback) |-> feedback[i].message]

When(condition, message) == IF condition THEN <<message>> ELSE << >>

Below(score, tenths) == 10 * score.n < tenths * score.d

\* C34: the feedback of evaluateSquat is, in this order, 'Keep chest up' iff
\* the trunk score is below 0.7, 'Go deeper' iff the hip score is below 0.6
\* or else 'Good depth!' iff it is above 0.9, 'Push knees out' iff the knee
\* score is below 0.7, then the valgus item iff the flag is raised; that of
\* evaluatePullup is 'Keep shoulders engaged', 'Pull with your back' and
\* 'Pull chin over bar' iff the shoulder, elbow and chin score is below 0.7,
\* then the swing item; a list has at most 4 items and repeats no message.
C34_FeedbackInFixedOrder ==
    /\ Returned("evaluateSquat") =>
          LET s == call.result.score
              m == MessageList(call.result.feedback)
          IN  /\ m = When(Below(s.breakdown.trunkAngle, 7), "Keep chest up")
                     \o When(Below(s.breakdown.hipAngle, 6), "Go deeper")
                     \o When(~Below(s.breakdown.hipAngle, 6)
                               /\ 10 * s.breakdown.hipAngle.n
                                     > 9 * s.breakdown.hipAngle.d, "Good depth!")
                     \o When(Below(s.breakdown.kneeAngle, 7), "Push knees out")
                     \o When(s.flags # << >>, "Keep knees in line with toes")
              /\ Len(m) <= 4
              /\ \A i, j \in 1 .. Len(m) : i # j => m[i] # m[j]
    /\ Returned("evaluatePullup") =>
          LET s == call.result.score
              m == MessageList(call.result.feedback)
          IN  /\ m = When(Below(s.breakdown.shoulderAngle, 7), "Keep shoulders engaged")
                     \o When(Below(s.breakdown.elbowAngle, 7), "Pull with your back")
                     \o When(Below(s.breakdown.chinOverBar, 7), "Pull chin over bar")
                     \o When(s.flags # << >>, "Control the movement")
              /\ Len(m) <= 4
              /\ \A i, j \in 1 .. Len(m) : i # j => m[i] # m[j]

\* a squat with every check failing: four items
C34_Witness ==
    /\ Returned("evaluateSquat")
    /\ call.angles.trunkAngle = RInt(30)
    /\ call.angles.hipAngle = RInt(45)
    /\ call.angles.kneeAngle = RInt(155)
    /\ MessageList(call.result.feedback) =
          <<"Keep chest up", "Go deeper", "Push knees out",
            "Keep knees in line with toes">>

-----------------------------------------------------------------------------
(* The store on its own: sessions are started, reps counted, feedback      *)
(* submitted and cleared in any order.                                     *)

\* reps counted in one session of the store
MaxReps == 1

\* message, type and priority of the submissions; the same message is
\* submitted with two types
Submissions ==
    {<<"Go deeper", "warning", 1>>, <<"Go deeper", "error", 2>>,
     <<"Good depth!", "info", 3>>}

StoreInit ==
    /\ det = NewRepDetector("squat")
    /\ now = T0
    /\ call = [op |-> "new"]
    /\ mon = NoHistory
    /\ fresh = << >>
    /\ scen = NoScenario
    /\ calc = NewAngleCalculator
    /\ store = NoStore
    /\ page = NoPage

StartSession ==
    /\ store' = startSession(store, "squat")
    /\ call' = [op |-> "startSession"]
    /\ UNCHANGED <<det, now, mon, fresh, scen, calc, page>>

AddFeedback(f, repNumber) ==
    /\ store' = addFeedback(store, f[1], f[2], f[3], repNumber)
    /\ call' = [op |-> "addFeedback", message |-> f[1], type |-> f[2],
                priority |-> f[3], repNumber |-> repNumber]
    /\ UNCHANGED <<det, now, mon, fresh, scen, calc, page>>

IncrementRep ==
    /\ store.currentSession # << >> => store.currentSession[1].repCount < MaxReps
    /\ store' = incrementRep(store)
    /\ call' = [op |-> "incrementRep"]
    /\ UNCHANGED <<det, now, mon, fresh, scen, calc, page>>

ClearFeedback ==
    /\ store' = clearFeedback(store)
    /\ call' = [op |-> "clearFeedback"]
    /\ UNCHANGED <<det, now, mon, fresh, scen, calc, page>>

StoreNext ==
    \/ StartSession
    \/ \E f \in Submissions, repNumber \in {0, 1} : AddFeedback(f, repNumber)
    \/ IncrementRep
    \/ ClearFeedback

StoreSpec == StoreInit /\ [][StoreNext]_vars

Feedback(st) ==
    IF st.currentSession = << >> THEN << >> ELSE st.currentSession[1].feedback

\* the rep number a submission is stored under
TargetRep(st, repNumber) ==
    IF repNumber # 0 THEN repNumber ELSE st.currentSession[1].repCount

Stored(st, message, rep) ==
    \E i \in 1 .. Len(Feedback(st)) :
       Feedback(st)[i].message = message /\ Feedback(st)[i].repNumber = rep

\* C29: the feedback list never holds two entries with the same message and
\* rep number; a submission whose pair is already stored leaves the store
\* unchanged, and any other submission is appended at the end of the list.
C29_NoDuplicateFeedback ==
    [][/\ \A i, j \in 1 .. Len(Feedback(store')) :
             (/\ Feedback(store')[i].message = Feedback(store')[j].message
              /\ Feedback(store')[i].repNumber = Feedback(store')[j].repNumber)
                => i = j
       /\ (call'.op = "addFeedback" /\ store.currentSession # << >>) =>
             LET rep == TargetRep(store, call'.repNumber) IN
             IF Stored(store, call'.message, rep)
             THEN store' = store
             ELSE /\ Len(Feedback(store')) = Len(Feedback(store)) + 1
                  /\ SubSeq(Feedback(store'), 1, Len(Feedback(store))) = Feedback(store)
                  /\ Feedback(store')[Len(Feedback(store'))] =
                        [repNumber |-> rep, message |-> call'.message,
                         type |-> call'.type, priority |-> call'.priority]]_vars

C29_Witness ==
    /\ call.op = "addFeedback"
    /\ call.message = "Go deeper" /\ call.type = "error" /\ call.repNumber = 0
    /\ store.currentSession # << >>
    /\ store.currentSession[1].repCount = 1
    /\ Feedback(store) =
          <<[repNumber |-> 1, message |-> "Go deeper", type |-> "warning", priority |-> 1],
            [repNumber |-> 1, message |-> "Good depth!", type |-> "info", priority |-> 3]>>

-----------------------------------------------------------------------------
(* The record page with everything its frame callback calls: the           *)
(* AngleCalculator, the RepDetector, the rules engine and the store.       *)

\* frames after calibration explored in one run
MaxMoving == 4
\* stalls of the pose provider (no frame for PauseMs) explored in one run
MaxStalls == 1

StandingFrame ==
    [count |-> 33, hidden |-> {}, pose |-> StandingGeometry,
     x |-> (23 :> 48 @@ 24 :> 52 @@ 25 :> 40 @@ 26 :> 60 @@ 27 :> 40 @@ 28 :> 60),
     y |-> (0 :> 20 @@ 11 :> 30 @@ 12 :> 30)]

SquatFrame == [StandingFrame EXCEPT !.pose = SquatGeometry]

PageInit ==
    /\ det = NewRepDetector("squat")
    /\ now = T0
    /\ call = [op |-> "new"]
    /\ mon = NoHistory
    /\ fresh = << >>
    /\ calc = NewAngleCalculator
    /\ store = startSession(NoStore, "squat")
    /\ page = MountedPage
    /\ scen = [sessions |-> 0, inSession |-> 0, moving |-> 0, stalls |-> 0,
               reps |-> 0, evaluations |-> 0, increments |-> 0,
               scoreUpdates |-> 0]

RECURSIVE addStoreFeedback(_, _, _)
\* evaluation.feedback.forEach(fb => addStoreFeedback(..., currentRepNumber))
addStoreFeedback(st, feedback, currentRepNumber) ==
    IF feedback = << >> THEN st
    ELSE addStoreFeedback(
             addFeedback(st, Head(feedback).message, Head(feedback).type,
                         Head(feedback).priority, currentRepNumber),
             Tail(feedback), currentRepNumber)

\* handlePoseResults for a frame with landmarks; the callback reads the
\* repCount it captured
handlePoseResults(dt, landmarks) ==
    LET r == calculateAngles(calc, landmarks)
        angles == r.angles
        repData == update(det, angles, now + dt)
        detectorRepCount == repData.repCount
        currentRepCount == page.captured.repCount
        repCompleted == detectorRepCount > currentRepCount
        evaluation ==
            IF det.exercise = "squat" THEN evaluateSquat(angles, landmarks)
            ELSE evaluatePullup(angles, landmarks)
        currentRepNumber == currentRepCount + 1
    IN  /\ scen.sessions > 0
        /\ ~det.isCalibrated => (landmarks = StandingFrame /\ dt = FramePeriod)
        /\ det.isCalibrated => scen.moving < MaxMoving
        /\ dt = PauseMs => scen.stalls < MaxStalls
        /\ now' = now + dt
        /\ calc' = r.calc
        /\ det' = repData
        /\ mon' = Observe(mon, det, det', now', TRUE)
        /\ page' = IF repCompleted
                   THEN [page EXCEPT !.repCount = detectorRepCount,
                                     !.currentScore = evaluation.score.overall,
                                     !.currentFlags = evaluation.score.flags]
                   ELSE page
        /\ store' = IF repCompleted
                    THEN updateScore(
                             addStoreFeedback(incrementRep(store),
                                              evaluation.feedback, currentRepNumber),
                             evaluation.score.overall)
                    ELSE store
        /\ call' = [op |-> "handlePoseResults", evaluated |-> repCompleted,
                    repNumber |-> currentRepNumber]
        /\ scen' = [scen EXCEPT
                      !.inSession = @ + 1,
                      !.moving = IF det.isCalibrated THEN @ + 1 ELSE @,
                      !.stalls = IF dt = PauseMs THEN @ + 1 ELSE @,
                      !.reps = IF det'.repCount > det.repCount THEN @ + 1 ELSE @,
                      !.evaluations = IF repCompleted THEN @ + 1 ELSE @,
                      !.increments = IF repCompleted THEN @ + 1 ELSE @,
                      !.scoreUpdates = IF repCompleted THEN @ + 1 ELSE @]
        /\ UNCHANGED fresh

\* Start is pressed while the person still stands
PageNext ==
    \/ (scen.moving = 0 /\ toggleRecording)
    \/ \E dt \in {FramePeriod, PauseMs}, landmarks \in {StandingFrame, SquatFrame} :
          handlePoseResults(dt, landmarks)

PageSpec == PageInit /\ [][PageNext]_vars

\* C30: the rules engine runs once per counted rep: evaluations, store
\* incrementRep() calls and updateScore() calls each equal the number of reps
\* the RepDetector has counted, and the rep number attached to the feedback
\* of an evaluation is the detector's count of the rep just completed.
C30_EvaluatedOncePerRep ==
    /\ scen.evaluations = scen.reps
    /\ scen.increments = scen.reps
    /\ scen.scoreUpdates = scen.reps
    /\ (call.op = "handlePoseResults" /\ call.evaluated) =>
          call.repNumber = det.repCount

-----------------------------------------------------------------------------
(* The AI summary of the record page (src/app/record/page.tsx).  The page  *)
(* state is what generateAiSummary reads; scen.requests is the log of the  *)
(* requests handed to fetch, scen.pending the number still unanswered.     *)

\* requests to /api/assess explored in one run
MaxRequests == 2

DefaultSettings ==
    [skeletonVisible |-> TRUE, anglesHudVisible |-> TRUE, voiceEnabled |-> TRUE,
     privacyMode |-> FALSE, aiSummaryEnabled |-> FALSE]

updateExerciseSettings(st, name, value) ==
    [st EXCEPT !.exerciseSettings[name] = value]

\* what the call does before its first await: fetch is << >> when nothing is
\* sent, or <<request>>
generateAiSummary_noPrivacyCheck(pg, settings) ==
    IF pg.currentAngles = << >> THEN [fetch |-> << >>, page |-> pg]
    ELSE [fetch |-> <<[url |-> "/api/assess", method |-> "POST",
                       body |-> [exercise |-> pg.exercise,
                                 angles |-> pg.currentAngles[1],
                                 flags |-> pg.currentFlags,
                                 score |-> pg.currentScore,
                                 repCount |-> pg.repCount]]>>,
          page |-> [pg EXCEPT !.isGeneratingAi = TRUE]]

generateAiSummary(pg, settings) ==
    IF pg.currentAngles = << >> \/ settings.privacyMode
    THEN [fetch |-> << >>, page |-> pg]
    ELSE [fetch |-> <<[url |-> "/api/assess", method |-> "POST",
                       body |-> [exercise |-> pg.exercise,
                                 angles |-> pg.currentAngles[1],
                                 flags |-> pg.currentFlags,
                                 score |-> pg.currentScore,
                                 repCount |-> pg.repCount]]>>,
          page |-> [pg EXCEPT !.isGeneratingAi = TRUE]]

\* currentAngles is null until the first frame, then the last result of
\* calculateAngles
SummaryAngles ==
    {<< >>, <<ZeroAngles>>,
     <<calculateAngles(NewAngleCalculator,
                       [count |-> 33, hidden |-> {}, pose |-> SquatGeometry]).angles>>}

SummaryInit ==
    /\ det = NewRepDetector("squat")
    /\ now = T0
    /\ call = [op |-> "new"]
    /\ mon = NoHistory
    /\ fresh = << >>
    /\ calc = NewAngleCalculator
    /\ store = [currentSession |-> startSession(NoStore, "squat").currentSession,
                exerciseSettings |-> DefaultSettings]
    /\ \E exercise \in {"squat", "pullup"}, angles \in SummaryAngles,
          flags \in {<< >>, <<"Knee valgus detected">>},
          score \in {0, 76}, reps \in {0, 1} :
          page = [exercise |-> exercise, currentAngles |-> angles,
                  currentFlags |-> flags, currentScore |-> score,
                  repCount |-> reps, isGeneratingAi |-> FALSE,
                  aiSummary |-> ""]
    /\ scen = [requests |-> << >>, pending |-> 0]

togglePrivacy ==
    /\ store' = updateExerciseSettings(store, "privacyMode",
                                       ~store.exerciseSettings.privacyMode)
    /\ call' = [op |-> "togglePrivacy"]
    /\ UNCHANGED <<det, now, mon, fresh, scen, calc, page>>

toggleAiSummary ==
    /\ store' = updateExerciseSettings(store, "aiSummaryEnabled",
                                       ~store.exerciseSettings.aiSummaryEnabled)
    /\ call' = [op |-> "toggleAiSummary"]
    /\ UNCHANGED <<det, now, mon, fresh, scen, calc, page>>

GenerateAiSummary ==
    LET r == generateAiSummary(page, store.exerciseSettings) IN
    /\ Len(scen.requests) < MaxRequests
    /\ page' = r.page
    /\ scen' = [scen EXCEPT !.requests = @ \o r.fetch,
                            !.pending = @ + Len(r.fetch)]
    /\ call' = [op |-> "generateAiSummary", sent |-> r.fetch # << >>]
    /\ UNCHANGED <<det, now, mon, fresh, calc, store>>

\* the awaited fetch settles: a response that is ok, one that is not, or a
\* rejection
FetchSettles(outcome) ==
    /\ scen.pending > 0
    /\ page' = [page EXCEPT
                  !.aiSummary =
                      CASE outcome = "ok" -> "summary"
                        [] outcome = "notOk" ->
                              "Failed to generate summary. Please try again."
                        [] OTHER ->
                              "Network error. Please check your connection.",
                  !.isGeneratingAi = FALSE]
    /\ scen' = [scen EXCEPT !.pending = @ - 1]
    /\ call' = [op |-> "fetchSettles", outcome |-> outcome]
    /\ UNCHANGED <<det, now, mon, fresh, calc, store>>

SummaryNext ==
    \/ togglePrivacy
    \/ toggleAiSummary
    \/ GenerateAiSummary
    \/ \E outcome \in {"ok", "notOk", "rejected"} : FetchSettles(outcome)

SummarySpec == SummaryInit /\ [][SummaryNext]_vars

\* C31: in a state where privacy mode is on, no step sends a request to the
\* assess endpoint; and a request that is sent goes to /api/assess with a
\* body of exactly exercise, the six angles, flags, score and repCount.
C31_PrivacySuppressesFetch ==
    [][/\ store.exerciseSettings.privacyMode => scen'.requests = scen.requests
       /\ scen'.requests # scen.requests =>
             LET request == scen'.requests[Len(scen'.requests)] IN
             /\ Len(scen'.requests) = Len(scen.requests) + 1
             /\ request.url = "/api/assess"
             /\ DOMAIN request.body =
                   {"exercise", "angles", "flags", "score", "repCount"}
             /\ DOMAIN request.body.angles = AngleNames
             /\ request.body.exercise = page.exercise
             /\ request.body.angles = page.currentAngles[1]
             /\ request.body.flags = page.currentFlags
             /\ request.body.score = page.currentScore
             /\ request.body.repCount = page.repCount]_vars

\* generateAiSummary was called in privacy mode with angles on the page, after
\* a request had been sent with privacy mode off
C31_Witness ==
    /\ call.op = "generateAiSummary"
    /\ ~call.sent
    /\ store.exerciseSettings.privacyMode
    /\ page.currentAngles # << >>
    /\ Len(scen.requests) = 1

-----------------------------------------------------------------------------
(* The assess endpoint (src/app/api/assess/route.ts).  scen holds the      *)
(* server's environment, the request body, the fetches made to providers   *)
(* and the response; an unset environment variable is "".                  *)

AssessEnvironments ==
    [ENABLE_AI : {"", "0", "1"}, AI_PROVIDER : {"", "openai", "gemini", "other"},
     OPENAI_API_KEY : {"", "sk-key"}, GEMINI_API_KEY : {"", "g-key"}]

\* bodies as the page posts them, and two malformed ones
AssessBodies ==
    [exercise : {"squat"}, hasAngles : {TRUE}, score : {0, 76},
     repCountIsNumber : {TRUE}]
    \cup {[exercise |-> "squat", hasAngles |-> FALSE, score |-> 76,
           repCountIsNumber |-> TRUE],
          [exercise |-> "", hasAngles |-> TRUE, score |-> 76,
           repCountIsNumber |-> FALSE]}

\* the validation of POST: 0 and "" are falsy
rejected(body) ==
    \/ body.exercise = ""
    \/ ~body.hasAngles
    \/ body.score = 0
    \/ ~body.repCountIsNumber

JsonResponse(status, source) == [status |-> status, source |-> source]

\* callOpenAI and callGemini up to their fetch: without the key they throw
\* before their try block
callProvider(env, provider) ==
    LET apiKey == IF provider = "openai" THEN env.OPENAI_API_KEY
                  ELSE env.GEMINI_API_KEY
    IN  IF apiKey = "" THEN [thrown |-> TRUE, fetch |-> << >>]
        ELSE [thrown |-> FALSE, fetch |-> <<provider>>]

AssessInit ==
    /\ det = NewRepDetector("squat")
    /\ now = T0
    /\ mon = NoHistory
    /\ fresh = << >>
    /\ calc = NewAngleCalculator
    /\ store = NoStore
    /\ page = NoPage
    /\ call = [op |-> "new"]
    /\ \E env \in AssessEnvironments, body \in AssessBodies :
          scen = [env |-> env, body |-> body, stage |-> "sent",
                  fetches |-> << >>, response |-> << >>]

\* POST up to its response or to the fetch it awaits
POST ==
    LET env == scen.env
        enableAI == env.ENABLE_AI = "1"
        aiProvider == IF env.AI_PROVIDER = "" THEN "openai" ELSE env.AI_PROVIDER
        called == callProvider(env, aiProvider)
    IN  /\ scen.stage = "sent"
        /\ call' = [op |-> "POST"]
        /\ scen' =
              IF rejected(scen.body)
              THEN [scen EXCEPT !.stage = "answered",
                                !.response = <<JsonResponse(400, "error")>>]
              ELSE IF enableAI /\ aiProvider \in {"openai", "gemini"}
              THEN IF called.thrown
                   THEN [scen EXCEPT !.stage = "answered",
                                     !.response = <<JsonResponse(500, "error")>>]
                   ELSE [scen EXCEPT !.stage = "awaiting",
                                     !.fetches = @ \o called.fetch]
              ELSE [scen EXCEPT !.stage = "answered",
                                !.response = <<JsonResponse(200, "template")>>]
        /\ UNCHANGED <<det, now, mon, fresh, calc, store, page>>

\* the provider's fetch settles; a response that is not ok and a rejection
\* are caught inside callOpenAI / callGemini and answered from the template
ProviderSettles(outcome) ==
    /\ scen.stage = "awaiting"
    /\ call' = [op |-> "providerSettles", outcome |-> outcome]
    /\ scen' = [scen EXCEPT
                  !.stage = "answered",
                  !.response = <<JsonResponse(200, IF outcome = "ok" THEN "ai"
                                                   ELSE "template")>>]
    /\ UNCHANGED <<det, now, mon, fresh, calc, store, page>>

AssessNext ==
    \/ POST
    \/ \E outcome \in {"ok", "notOk", "rejected"} : ProviderSettles(outcome)

AssessSpec == AssessInit /\ [][AssessNext]_vars

\* a body with every field of AssessmentRequest, of the right type
WellFormed(body) ==
    body.exercise # "" /\ body.hasAngles /\ body.repCountIsNumber

\* C32: a well-formed request is never answered with an error for lack of a
\* key: with OPENAI_API_KEY set (and AI enabled) OpenAI is asked, otherwise
\* with GEMINI_API_KEY set Gemini is asked, and with neither key the answer
\* is the template summary with status 200.
C32_ProviderFromAvailableKeys ==
    (scen.stage = "answered" /\ WellFormed(scen.body)) =>
        LET env == scen.env
            response == scen.response[1]
        IN  /\ response.status = 200
            /\ (env.ENABLE_AI = "1" /\ env.OPENAI_API_KEY # "") =>
                  scen.fetches = <<"openai">>
            /\ (env.ENABLE_AI = "1" /\ env.OPENAI_API_KEY = ""
                   /\ env.GEMINI_API_KEY # "") =>
                  scen.fetches = <<"gemini">>
            /\ (env.OPENAI_API_KEY = "" /\ env.GEMINI_API_KEY = "") =>
                  (response.source = "template" /\ scen.fetches = << >>)

-----------------------------------------------------------------------------
(* VoiceFeedback (src/unnamed/part_000).  scen.voice holds the object's     *)
(* fields; debounceTimeout is << >> for null, or <<timer>> for a handle,   *)
(* whose timer is still pending or not.  scen.events is the history of the *)
(* calls made and of the messages handed to speechSynthesis.speak, in      *)
(* order; the timer carries the position of the call that set it.          *)

DEBOUNCE_DELAY == 800
MIN_INTERVAL == 2000

\* calls of speak() and stop() explored in one run
MaxVoiceCalls == 3
\* clock steps explored in one run
MaxTicks == 5

VoiceTick == DEBOUNCE_DELAY \div 2

NewVoiceFeedback ==
    [currentMessage |-> "", lastSpokenTime |-> 0, debounceTimeout |-> << >>]

\* the message " " trims to the empty string
trim(message) == IF message = " " THEN "" ELSE message

executeSpeech(v, message, t) ==
    [v EXCEPT !.currentMessage = message, !.lastSpokenTime = t]

clearTimeout(handle) ==
    IF handle = << >> THEN << >> ELSE <<[handle[1] EXCEPT !.pending = FALSE]>>

\* speak() at time t, as call number by of the history: the new fields, and
\* the messages uttered during the call
speak_noClear(v, message, priority, t, by) ==
    IF trim(message) = "" THEN [voice |-> v, uttered |-> << >>, accepted |-> FALSE]
    ELSE IF message = v.currentMessage /\ t - v.lastSpokenTime < MIN_INTERVAL
    THEN [voice |-> v, uttered |-> << >>, accepted |-> FALSE]
    ELSE IF priority \in {"low", "medium"}
    THEN IF v.debounceTimeout # << >> /\ v.debounceTimeout[1].pending
         THEN [voice |-> v, uttered |-> << >>, accepted |-> TRUE]
         ELSE [voice |-> [v EXCEPT !.debounceTimeout =
                             <<[message |-> message, due |-> t + DEBOUNCE_DELAY,
                                pending |-> TRUE, by |-> by]>>],
               uttered |-> << >>, accepted |-> TRUE]
    ELSE [voice |-> executeSpeech(v, message, t),
          uttered |-> <<message>>, accepted |-> TRUE]

speak(v, message, priority, t, by) ==
    IF trim(message) = "" THEN [voice |-> v, uttered |-> << >>, accepted |-> FALSE]
    ELSE IF message = v.currentMessage /\ t - v.lastSpokenTime < MIN_INTERVAL
    THEN [voice |-> v, uttered |-> << >>, accepted |-> FALSE]
    ELSE LET cleared == [v EXCEPT !.debounceTimeout = clearTimeout(@)] IN
         IF priority \in {"low", "medium"}
         THEN [voice |-> [cleared EXCEPT !.debounceTimeout =
                             <<[message |-> message, due |-> t + DEBOUNCE_DELAY,
                                pending |-> TRUE, by |-> by]>>],
               uttered |-> << >>, accepted |-> TRUE]
         ELSE [voice |-> executeSpeech(cleared, message, t),
               uttered |-> <<message>>, accepted |-> TRUE]

stop(v) ==
    IF v.debounceTimeout # << >> THEN [v EXCEPT !.debounceTimeout = << >>]
    ELSE v

TimerPending == 
    scen.voice.debounceTimeout # << >> /\ scen.voice.debounceTimeout[1].pending

VoiceInit ==
    /\ det = NewRepDetector("squat")
    /\ now = T0
    /\ call = [op |-> "new"]
    /\ mon = NoHistory
    /\ fresh = << >>
    /\ calc = NewAngleCalculator
    /\ store = NoStore
    /\ page = NoPage
    /\ scen = [voice |-> NewVoiceFeedback, events |-> << >>, calls |-> 0,
               ticks |-> 0]

Speak(message, priority) ==
    LET by == Len(scen.events) + 1
        r == speak(scen.voice, message, priority, now, by)
    IN  /\ scen.calls < MaxVoiceCalls
        /\ call' = [op |-> "speak", message |-> message, priority |-> priority,
                    accepted |-> r.accepted]
        /\ scen' = [scen EXCEPT
                      !.voice = r.voice,
                      !.calls = @ + 1,
                      !.events = @ \o <<[kind |-> "speak", message |-> message,
                                         priority |-> priority, time |-> now,
                                         accepted |-> r.accepted]>>
                                   \o [k \in 1..Len(r.uttered) |->
                                         [kind |-> "utter", message |-> r.uttered[k],
                                          time |-> now, by |-> by]]]
        /\ UNCHANGED <<det, now, mon, fresh, calc, store, page>>

Stop ==
    /\ scen.calls < MaxVoiceCalls
    /\ call' = [op |-> "stop"]
    /\ scen' = [scen EXCEPT
                  !.voice = stop(@),
                  !.calls = @ + 1,
                  !.events = Append(@, [kind |-> "stop", time |-> now])]
    /\ UNCHANGED <<det, now, mon, fresh, calc, store, page>>

\* the debounce timer's callback runs when the delay has passed
TimerFires ==
    LET timer == scen.voice.debounceTimeout[1] IN
    /\ TimerPending
    /\ now = timer.due
    /\ call' = [op |-> "timer", message |-> timer.message]
    /\ scen' = [scen EXCEPT
                  !.voice = executeSpeech(
                                [@ EXCEPT !.debounceTimeout[1].pending = FALSE],
                                timer.message, now),
                  !.events = Append(@, [kind |-> "utter", message |-> timer.message,
                                        time |-> now, by |-> timer.by])]
    /\ UNCHANGED <<det, now, mon, fresh, calc, store, page>>

\* the clock advances, never past a pending timer
VoiceTime ==
    /\ scen.ticks < MaxTicks
    /\ TimerPending => now + VoiceTick <= scen.voice.debounceTimeout[1].due
    /\ now' = now + VoiceTick
    /\ call' = [op |-> "time"]
    /\ scen' = [scen EXCEPT !.ticks = @ + 1]
    /\ UNCHANGED <<det, mon, fresh, calc, store, page>>

\* the page announces rep counts with low priority and cues with medium
\* priority; any message may also be spoken with high priority
VoiceCalls ==
    {<<" ", "medium">>, <<"Rep 1", "low">>, <<"Rep 1", "high">>,
     <<"Squat: Go deeper", "medium">>, <<"Squat: Go deeper", "high">>}

VoiceNext ==
    \/ \E c \in VoiceCalls : Speak(c[1], c[2])
    \/ Stop
    \/ TimerFires
    \/ VoiceTime

VoiceSpec == VoiceInit /\ [][VoiceNext]_vars

Utterances == {i \in 1..Len(scen.events) : scen.events[i].kind = "utter"}

\* C33: no message text is uttered twice less than MIN_INTERVAL apart.
C33_SameMessageNotWithin2000 ==
    \A i \in Utterances, j \in Utterances :
        (i < j /\ scen.events[i].message = scen.events[j].message) =>
            scen.events[j].time - scen.events[i].time >= MIN_INTERVAL

AcceptedSpeaks ==
    {i \in 1..Len(scen.events) :
        scen.events[i].kind = "speak" /\ scen.events[i].accepted}

UtteredBy(i) == {u \in Utterances : scen.events[u].by = i}

\* the accepted speak() calls and the stop() calls made after call i
Superseding(i) ==
    {j \in (i + 1)..Len(scen.events) :
        \/ scen.events[j].kind = "stop"
        \/ scen.events[j].kind = "speak" /\ scen.events[j].accepted}

\* C40: an accepted low- or medium-priority message is uttered once, 800 ms
\* after its call, unless an accepted speak() or a stop() comes first, and then
\* it is never uttered; an accepted high-priority message is uttered within
\* its call; a call that is not accepted utters nothing; nothing is uttered
\* between a stop() and the next speak().
C40_SinglePendingTimer ==
    LET E == scen.events IN
    /\ \A i \in AcceptedSpeaks :
          IF E[i].priority = "high"
          THEN UtteredBy(i) = {i + 1} /\ E[i + 1].time = E[i].time
          ELSE /\ Cardinality(UtteredBy(i)) <= 1
               /\ \A u \in UtteredBy(i) :
                     /\ E[u].time = E[i].time + 800
                     /\ E[u].message = E[i].message
                     /\ \A j \in Superseding(i) : j > u
               /\ (\E j \in Superseding(i) : E[j].time < E[i].time + 800) =>
                     UtteredBy(i) = {}
               /\ (/\ now > E[i].time + 800
                   /\ \A j \in Superseding(i) : E[j].time > E[i].time + 800) =>
                     Cardinality(UtteredBy(i)) = 1
    /\ \A u \in Utterances : E[u].by \in AcceptedSpeaks
    /\ \A u \in Utterances :
          \A j \in 1..Len(E) : E[j].kind = "stop" => (j < E[u].by \/ j > u)

\* a medium-priority cue was uttered by the timer, 800 ms after its call,
\* although a call that was not accepted came in between
C40_Witness ==
    LET E == scen.events IN
    /\ \E i \in AcceptedSpeaks, u \in Utterances, k \in 1..Len(E) :
          /\ E[i].priority = "medium"
          /\ E[u].by = i
          /\ i < k /\ k < u
          /\ E[k].kind = "speak" /\ ~E[k].accepted /\ E[k].message # " "
    /\ call.op = "timer"

-----------------------------------------------------------------------------
(* Calibration and detection with any posture in front of the camera: the  *)
(* person holds one posture (standing, hips bent, or not seen at all, which *)
(* the AngleCalculator reports as angles of 0), some frames show another   *)
(* one, and a few frames follow the calibration.  scen records what the    *)
(* frames were: moveMin and moveMax are the smallest and largest hip angle *)
(* of the frames 16..25 that differed from the standing baseline by more   *)
(* than 15 degrees.                                                        *)

\* frames of the first 15 in which the person is not seen
MaxGaps == 1
\* frames 16..25 that are not the posture held
MaxPostureMoves == 2
\* frames after the calibration
MaxAfter == 3

ZeroPose == Angles(0, 0)
DepthPose == Angles(100, 120)

\* the posture held: standing, hips bent, not seen
Postures == {StandingPose, Angles(50, 60), ZeroPose}

PostureInit ==
    /\ det = NewRepDetector("squat")
    /\ now = T0
    /\ call = [op |-> "new", angles |-> StandingPose]
    /\ mon = NoHistory
    /\ fresh = << >>
    /\ calc = NewAngleCalculator
    /\ store = NoStore
    /\ page = NoPage
    /\ \E held \in Postures :
          scen = [held |-> held, gaps |-> 0, moves |-> 0, after |-> 0,
                  moved |-> FALSE, moveMin |-> RInt(0), moveMax |-> RInt(0)]

\* one of the 25 calibration frames
PostureCalibrate(a) ==
    LET k == det.calibrationFrames + 1
        movement ==
            /\ k > STANDING_FRAMES
            /\ \/ RLt(RInt(15), RAbs(RSub(a.hipAngle, det.standingHipAngle)))
               \/ RLt(RInt(15), RAbs(RSub(a.kneeAngle, det.standingKneeAngle)))
    IN  /\ ~det.isCalibrated
        /\ k <= STANDING_FRAMES =>
              \/ a = scen.held
              \/ a = ZeroPose /\ scen.gaps < MaxGaps
        /\ k > STANDING_FRAMES =>
              \/ a = scen.held
              \/ a \in {DepthPose, ZeroPose} /\ scen.moves < MaxPostureMoves
        /\ now' = now + FramePeriod
        /\ det' = update(det, a, now')
        /\ call' = [op |-> "update", angles |-> a]
        /\ mon' = Observe(mon, det, det', now', TRUE)
        /\ scen' = [scen EXCEPT
                      !.gaps = IF k <= STANDING_FRAMES /\ a # scen.held
                               THEN @ + 1 ELSE @,
                      !.moves = IF k > STANDING_FRAMES /\ a # scen.held
                                THEN @ + 1 ELSE @,
                      !.moved = @ \/ movement,
                      !.moveMin = IF ~movement THEN @
                                  ELSE IF scen.moved THEN RMin(@, a.hipAngle)
                                  ELSE a.hipAngle,
                      !.moveMax = IF ~movement THEN @
                                  ELSE IF scen.moved THEN RMax(@, a.hipAngle)
                                  ELSE a.hipAngle]
        /\ UNCHANGED <<fresh, calc, store, page>>

\* a frame after the calibration
PostureFrame(a) ==
    /\ det.isCalibrated
    /\ scen.after < MaxAfter
    /\ now' = now + FramePeriod
    /\ det' = update(det, a, now')
    /\ call' = [op |-> "update", angles |-> a]
    /\ mon' = Observe(mon, det, det', now', TRUE)
    /\ scen' = [scen EXCEPT !.after = @ + 1]
    /\ UNCHANGED <<fresh, calc, store, page>>

PostureNext ==
    \/ \E a \in Postures \cup {DepthPose} : PostureCalibrate(a)
    \/ \E a \in Postures \cup {DepthPose} : PostureFrame(a)

PostureSpec == PostureInit /\ [][PostureNext]_vars

\* C35: in every calibrated state the calibrated range is positive and the
\* thresholds are ordered squatThreshold < midThreshold < standingThreshold,
\* so no hip angle above standingThreshold satisfies the STARTING->PEAK guard.
C35_ThresholdsOrdered ==
    det.isCalibrated =>
        LET range == RSub(det.standingHipAngle, det.squatDepthHipAngle)
            standing == RSub(det.standingHipAngle, RMul(range, Norm(1, 5)))
            squat == RAdd(det.squatDepthHipAngle, RMul(range, Norm(1, 5)))
            mid == RDivInt(RAdd(standing, squat), 2)
        IN  /\ RLt(RInt(0), range)
            /\ RLt(squat, mid)
            /\ RLt(mid, standing)

\* C36: when movement was seen in frames 16..25, the squat-depth hip angle
\* at the end of the calibration lies between the smallest and the largest
\* hip angle of the movement frames.
C36_DepthWithinObserved ==
    (det.isCalibrated /\ scen.moved) =>
        /\ RLe(scen.moveMin, det.squatDepthHipAngle)
        /\ RLe(det.squatDepthHipAngle, scen.moveMax)

\* C39: a processed frame whose hip or knee angle is 0 changes neither the
\* phase nor the standing baselines nor the rep count.
C39_ZeroAngleFrameIgnored ==
    [][(/\ call'.op = "update"
        /\ det'.lastUpdateTime = now'
        /\ (call'.angles.hipAngle = RInt(0) \/ call'.angles.kneeAngle = RInt(0))) =>
          /\ det'.currentState = det.currentState
          /\ det'.standingHipAngle = det.standingHipAngle
          /\ det'.standingKneeAngle = det.standingKneeAngle
          /\ det'.repCount = det.repCount]_vars

-----------------------------------------------------------------------------
(* The scores of a session: each completed rep is handled as the frame     *)
(* callback of the record page does, incrementRep() and then               *)
(* updateScore(score).  scen.scores are the scores of the session's reps.  *)

\* reps completed in one session
MaxScoredReps == 3

RepScores == {0, 40, 60, 76, 100}

ScoreInit ==
    /\ det = NewRepDetector("squat")
    /\ now = T0
    /\ call = [op |-> "new"]
    /\ mon = NoHistory
    /\ fresh = << >>
    /\ calc = NewAngleCalculator
    /\ store = startSession(NoStore, "squat")
    /\ page = MountedPage
    /\ scen = [scores |-> << >>, sessions |-> 0]

\* the Start button: a new session replaces the current one
ScoreStart ==
    /\ scen.sessions < MaxSessions
    /\ store' = startSession(store, "squat")
    /\ call' = [op |-> "startSession"]
    /\ scen' = [scores |-> << >>, sessions |-> scen.sessions + 1]
    /\ UNCHANGED <<det, now, mon, fresh, calc, page>>

\* the store calls of handlePoseResults for a completed rep
RepCompleted(score) ==
    /\ Len(scen.scores) < MaxScoredReps
    /\ store' = updateScore(incrementRep(store), score)
    /\ call' = [op |-> "repCompleted", score |-> score]
    /\ scen' = [scen EXCEPT !.scores = Append(@, score)]
    /\ UNCHANGED <<det, now, mon, fresh, calc, page>>

ScoreNext ==
    \/ ScoreStart
    \/ \E score \in RepScores : RepCompleted(score)

ScoreSpec == ScoreInit /\ [][ScoreNext]_vars

\* C37: after n completed reps the session's averageScore is the mean of
\* their scores and lastRepScore is the score of the last one.
C37_AverageIsMean ==
    LET n == Len(scen.scores)
        session == store.currentSession[1]
    IN  n > 0 =>
          /\ session.averageScore = Norm(SumSeq(scen.scores), n)
          /\ session.lastRepScore = scen.scores[n]

-----------------------------------------------------------------------------
(* The phase of a detector that is calibrating, in the session of Spec:    *)
(* update(), reset() and forceCalibration() in any order.                  *)

\* C38: whenever the detector is uncalibrated its phase is IDLE, and
\* isRepInProgress() is false.
C38_UncalibratedIsIdle ==
    ~det.isCalibrated =>
        /\ det.currentState = IDLE
        /\ det.currentState \notin {STARTING, PEAK, ENDING}

====
